---- MODULE Spec2Model ----
(***************************************************************************)
(* campaign-viz: the temporal visibility and marker-reveal engine.         *)
(*                                                                         *)
(* Time is measured in whole time units; one day is UnitsPerDay units and  *)
(* one update interval (UPDATE_INTERVAL_DAYS = 0.05 day) is SubSteps       *)
(* units.  dayOffset, revealFraction and reveal timestamps are numbers of  *)
(* units.  Dates are day numbers.  Coordinates are integers in units of    *)
(* one millionth of a degree.                                              *)
(***************************************************************************)
EXTENDS Integers, Sequences, FiniteSets, TLC

\* ------------------------------------------------------------------------
\* Bounds of the model
\* ------------------------------------------------------------------------
SubSteps == 2
MaxWindow == 2
MaxFrameDelta == 2
MaxTimers == 1
MaxFrames == 2
MaxRecords == 3

\* markers a chunk of addLayers adds before it looks at the clock
CHUNK_SIZE == 1

\* chunked batches left unfinished at a time
MaxChunks == 1

\* markers left on the layer that the registry does not hold
MaxOrphans == 1

\* keydown listeners on the document
MaxListeners == 2

\* ------------------------------------------------------------------------
\* Program constants (src/src/config.ts), in model units
\* ------------------------------------------------------------------------
\* UPDATE_INTERVAL_DAYS = 0.05: twenty update intervals per day
IntervalsPerDay == 20
UPDATE_INTERVAL_DAYS == SubSteps
UnitsPerDay == IntervalsPerDay * UPDATE_INTERVAL_DAYS
\* MS_PER_DAY, as the number of time units of one day
MS_PER_DAY == UnitsPerDay
PLAYBACK_SPEEDS == {1, 2, 5}
ActivityFilters == {"ALL", "HOUSE", "POSTER"}

\* n twentieths of a day, in time units (0.05 day steps)
Frac(n) == n * SubSteps

Max(a, b) == IF a >= b THEN a ELSE b
Min(a, b) == IF a <= b THEN a ELSE b

\* an optional value: null is the empty set
Null == {}
Some(x) == {x}
ValueOf(o) == CHOOSE x \in o : TRUE

\* ------------------------------------------------------------------------
\* data/activities.ts
\* ------------------------------------------------------------------------
\* Activity: a raw record of the dataset input
Activity(date, type, lat, lng, count) ==
  [date |-> date, type |-> type, lat |-> lat, lng |-> lng, count |-> count]

RECURSIVE MinDate(_), MaxDate(_)
MinDate(acts) ==
  IF Len(acts) = 1 THEN acts[1].date
  ELSE Min(acts[Len(acts)].date, MinDate(SubSeq(acts, 1, Len(acts) - 1)))
MaxDate(acts) ==
  IF Len(acts) = 1 THEN acts[1].date
  ELSE Max(acts[Len(acts)].date, MaxDate(SubSeq(acts, 1, Len(acts) - 1)))

\* computeDateRange: earliest and latest record date (non-empty dataset)
computeDateRange(acts) == [start |-> MinDate(acts), end |-> MaxDate(acts)]

\* a field the raw record does not carry reads as undefined; a coordinate
\* is a number of millionths of a degree, and this is none
undefined == -999999999

\* Date.getTime of a date-only string: UTC midnight of the day, in time units
getTime(date) == date * MS_PER_DAY

\* Math.round(n / d) for d > 0: the nearest integer, halves upwards
Round(n, d) == (2 * n + d) \div (2 * d)

\* a normalizer that hands the records back in reverse input order
processActivitiesReversed(acts, startDate, seeded) ==
  [idx \in 1..Len(acts) |->
     LET activity == acts[Len(acts) + 1 - idx]
     IN  [date |-> activity.date,
          type |-> activity.type,
          lat |-> activity.lat,
          lng |-> activity.lng,
          count |-> activity.count,
          blurredLat |-> activity.lat,
          blurredLng |-> activity.lng,
          dayIndex |-> Max(0, Round(getTime(activity.date) - getTime(startDate),
                                    MS_PER_DAY)),
          revealFraction |-> seeded[idx]]]

\* processActivities(activities, alreadyBlurred = true, startDate): a map
\* over the input array, one output element per input element.
\* seeded[idx] stands for seededRandom(idx * 97 + lat * 1000 + lng * 1000):
\* a fixed value per input position.
processActivities(acts, startDate, seeded) ==
  [idx \in 1..Len(acts) |->
     [date |-> acts[idx].date,
      type |-> acts[idx].type,
      lat |-> acts[idx].lat,
      lng |-> acts[idx].lng,
      count |-> acts[idx].count,
      blurredLat |-> acts[idx].lat,
      blurredLng |-> acts[idx].lng,
      dayIndex |-> Max(0, Round(getTime(acts[idx].date) - getTime(startDate),
                                MS_PER_DAY)),
      revealFraction |-> seeded[idx]]]

\* ------------------------------------------------------------------------
\* utils/random.ts
\* ------------------------------------------------------------------------
\* Numbers of seededRandom are binary floating-point numbers with
\* MantissaBits significant bits (an IEEE double has 53), written as whole
\* numbers of quanta of 2^-FractionBits.
MantissaBits == 4

FractionBits == MantissaBits + 2

Abs(n) == IF n < 0 THEN 0 - n ELSE n

RECURSIVE Pow2(_)
Pow2(k) == IF k = 0 THEN 1 ELSE 2 * Pow2(k - 1)

\* the number 1.0, in quanta
One == Pow2(FractionBits)

\* the number of binary digits of n > 0
RECURSIVE BitLength(_)
BitLength(n) == IF n = 0 THEN 0 ELSE 1 + BitLength(n \div 2)

\* the floating-point number nearest to n quanta, ties to the even
\* significand: the rounding of every arithmetic operation
RoundToFloat(n) ==
  LET a == Abs(n)
      ulp == IF BitLength(a) <= MantissaBits THEN 1
             ELSE Pow2(BitLength(a) - MantissaBits)
      q == a \div ulp
      r == a % ulp
      up == 2 * r > ulp \/ (2 * r = ulp /\ q % 2 = 1)
      v == (IF up THEN q + 1 ELSE q) * ulp
  IN  IF n < 0 THEN 0 - v ELSE v

\* Math.floor
MathFloor(x) == (x \div One) * One

\* Math.sin(seed * 9999) * 10000 for a seed near zero, where Math.sin(y) is
\* y: seeds are counted in units of one quantum / (9999 * 10000), so that
\* the product is the seed's number of quanta, rounded
SinTimes10000(seed) == RoundToFloat(seed)

\* seededRandom: x - Math.floor(x), one rounded subtraction
seededRandom(seed) ==
  LET x == SinTimes10000(seed)
  IN  RoundToFloat(x - MathFloor(x))

\* ------------------------------------------------------------------------
\* scripts/transform-export.ts
\* ------------------------------------------------------------------------
\* gridSize = 0.001 degree, in millionths of a degree
gridSize == 1000

\* Math.round(x / gridSize) * gridSize
GridOf(x) == Round(x, gridSize) * gridSize

\* Number.toFixed(4) of a coordinate given in millionths of a degree
ToFixed4(x) == (x + 50) \div 100

\* the key of the groups map: date|type|gridLat.toFixed(4)|gridLng.toFixed(4)
groupKey(activity) ==
  <<activity.date, activity.type,
    ToFixed4(GridOf(activity.lat)), ToFixed4(GridOf(activity.lng))>>

\* a loop body that keeps the count of the first record of a group
aggregateStepKeepsFirst(groups, activity) ==
  LET key == groupKey(activity)
  IN  IF \E i \in 1..Len(groups) : groups[i].key = key
      THEN groups
      ELSE Append(groups,
                  [key |-> key,
                   value |-> [activity EXCEPT !.lat = GridOf(activity.lat),
                                              !.lng = GridOf(activity.lng)]])

\* the body of the loop of aggregateByDateAndLocation: groups is the Map in
\* insertion order
aggregateStep(groups, activity) ==
  LET key == groupKey(activity)
  IN  IF \E i \in 1..Len(groups) : groups[i].key = key
      THEN [i \in 1..Len(groups) |->
              IF groups[i].key = key
              THEN [groups[i] EXCEPT !.value.count = @ + activity.count]
              ELSE groups[i]]
      ELSE Append(groups,
                  [key |-> key,
                   value |-> [activity EXCEPT !.lat = GridOf(activity.lat),
                                              !.lng = GridOf(activity.lng)]])

RECURSIVE aggregateLoop(_, _)
aggregateLoop(groups, activities) ==
  IF Len(activities) = 0 THEN groups
  ELSE aggregateLoop(aggregateStep(groups, Head(activities)), Tail(activities))

\* aggregateByDateAndLocation: Array.from(groups.values())
aggregateByDateAndLocation(activities) ==
  LET groups == aggregateLoop(<<>>, activities)
  IN  [i \in 1..Len(groups) |-> groups[i].value]

\* visible on the reveal day only
isActivityVisibleRevealDayOnly(activity, dayOffset) ==
  LET wholeDays == dayOffset \div UnitsPerDay
      intraDay == dayOffset - wholeDays * UnitsPerDay
  IN  activity.dayIndex = wholeDays /\ intraDay >= activity.revealFraction

\* the reveal point itself not yet visible
isActivityVisibleStrict(activity, dayOffset) ==
  LET wholeDays == dayOffset \div UnitsPerDay
      intraDay == dayOffset - wholeDays * UnitsPerDay
  IN  \/ activity.dayIndex < wholeDays
      \/ (activity.dayIndex = wholeDays /\ intraDay > activity.revealFraction)

isActivityVisible(activity, dayOffset) ==
  LET wholeDays == dayOffset \div UnitsPerDay
      intraDay == dayOffset - wholeDays * UnitsPerDay
  IN  \/ activity.dayIndex < wholeDays
      \/ (activity.dayIndex = wholeDays /\ intraDay >= activity.revealFraction)

\* the date check without isSameDay
getVisibleActivitiesBefore(acts, upToDate, dayOffset) ==
  SelectSeq(acts, LAMBDA a : isActivityVisible(a, dayOffset) /\ a.date < upToDate)

getVisibleActivitiesUpTo(acts, upToDate, dayOffset) ==
  SelectSeq(acts, LAMBDA a : isActivityVisible(a, dayOffset) /\ a.date <= upToDate)

filterActivities(acts, filter) ==
  IF filter = "ALL" THEN acts
  ELSE SelectSeq(acts, LAMBDA a : a.type = filter)

selectVisibleActivities(acts, st) ==
  filterActivities(getVisibleActivitiesUpTo(acts, st.currentDate, st.dayOffset),
                   st.activityFilter)

\* ------------------------------------------------------------------------
\* components/MapController.ts: keys and the recent window
\* ------------------------------------------------------------------------
\* Number.toFixed(5) of a coordinate given in millionths of a degree
ToFixed5(x) == (x + 5) \div 10

createActivityKey(a) ==
  <<a.date, a.type, ToFixed5(a.blurredLat), ToFixed5(a.blurredLng), a.count>>

KeysOf(acts) == {createActivityKey(acts[i]) : i \in 1..Len(acts)}

\* a reveal timestamp that forgets the day
getRevealTimestampOfDay(a) == a.revealFraction

getRevealTimestamp(a) == a.date * MS_PER_DAY + a.revealFraction

\* a sort that puts an element before the elements it ties with
InsertSortedBeforeTies(sorted, a) ==
  LET p == Cardinality({i \in 1..Len(sorted) :
                          getRevealTimestamp(sorted[i]) < getRevealTimestamp(a)})
  IN  SubSeq(sorted, 1, p) \o <<a>> \o SubSeq(sorted, p + 1, Len(sorted))

\* Array.prototype.sort with the comparator a - b on reveal timestamps is a
\* stable ascending sort: an element goes after every element that does not
\* compare greater.
InsertSorted(sorted, a) ==
  LET p == Cardinality({i \in 1..Len(sorted) :
                          getRevealTimestamp(sorted[i]) <= getRevealTimestamp(a)})
  IN  SubSeq(sorted, 1, p) \o <<a>> \o SubSeq(sorted, p + 1, Len(sorted))

RECURSIVE SortByReveal(_)
SortByReveal(acts) ==
  IF Len(acts) = 0 THEN <<>>
  ELSE InsertSorted(SortByReveal(SubSeq(acts, 1, Len(acts) - 1)), acts[Len(acts)])

\* slice(0, n): the first n
SliceFirst(seq, n) == SubSeq(seq, 1, Min(n, Len(seq)))

\* slice(-(n + 1)): one too many
SliceLastOneMore(seq, n) == SubSeq(seq, Max(1, Len(seq) - n), Len(seq))

\* Array.prototype.slice(-n)
SliceLast(seq, n) == SubSeq(seq, Max(1, Len(seq) - n + 1), Len(seq))

\* ------------------------------------------------------------------------
\* regions.ts
\* ------------------------------------------------------------------------
REGIONS ==
  [karlsruhe |-> [clusteringEnabled |-> FALSE, highlightRecentMarkers |-> TRUE],
   bawu |-> [clusteringEnabled |-> TRUE, highlightRecentMarkers |-> FALSE]]

DEFAULT_REGION == "karlsruhe"

getRegionConfig(regionId) == REGIONS[regionId]

\* ------------------------------------------------------------------------
\* The program state as one record m:
\*   m.state               the AppState of state.ts
\*   m.activities          TimelineController's activities
\*   m.dateRange           data/activities' dateRange
\*   m.lastUpdateInterval  TimelineController's lastUpdateInterval
\*   m.markerRegistry      key -> [marker, variant, style]
\*   m.markersLayer        the markers on mapContext.markersLayer
\*   m.cachedRecentKeys, m.cachedVisibleCount   the recent-keys cache
\*   m.pendingFrames       requested animation frames not yet run or cancelled
\*   m.restartTimers       armed end-of-range restart timeouts
\*   m.startTimers         armed start-of-playback timeouts of enterFullscreen
\*   m.ui                  the page: whether the timeline container with its
\*                         controls is hidden, the number of keydown
\*                         listeners on the document, and the time zone of
\*                         the browser
\*   m.recentMarkerCount   RECENT_MARKER_COUNT
\*   m.mapContext          MapController's mapContext, Null before initMap
\*   m.pendingChunks       batches of addLayers that chunked loading has not
\*                         finished adding
\*   m.sinceLastFrameTime  performance.now() - state.lastFrameTime
\*   m.slow                whether a chunk of this handler's addLayers runs out
\*                         of its time slice
\*   m.cycle               what the current handler did (observation only)
\* ------------------------------------------------------------------------
\* op: the handler; ran: how many times it ran updateMapVisualization;
\* recentKeys: the recent set its last classification used; pendingAdd: the
\* pendingAdd array of syncClusterGroup; backward: a slider input that moved
\* dayOffset back; input: the slider value; advanced: the newDayOffset the
\* last animate computed; stopped: the time since lastFrameTime that the
\* last startPlayback found (-1 when none ran); error: the message of the Error
\* the handler threw ("" when none); requested: the animation frames it
\* requested; created: the keys the current cycle called createMarker for;
\* flipped: a kept marker changed its variant; flicker: a cycle created a
\* marker for a key it found registered in the current style; keptAbsent: a
\* cycle kept the marker of a key it found registered without an element;
\* absentRecreated: a cycle created a marker for a key it found registered in
\* the current style without an element; reused: a cycle left in the
\* registry a marker it found there
NoCycle(op) ==
  [op |-> op, ran |-> 0, recentKeys |-> {}, pendingAdd |-> <<>>, backward |-> FALSE,
   input |-> -1, advanced |-> -1, stopped |-> -1, error |-> "", requested |-> 0,
   created |-> {}, flipped |-> FALSE,
   flicker |-> FALSE, keptAbsent |-> FALSE, absentRecreated |-> FALSE,
   reused |-> FALSE]

BeginHandler(m, op) == [m EXCEPT !.cycle = NoCycle(op)]

\* the handler has thrown: the rest of it does not run
Threw(m) == m.cycle.error # ""

getMarkerStyle(m) == IF m.state.useSunflowerMarkers THEN "sunflower" ELSE "simple"

shouldHighlightRecentMarkers(m) ==
  getRegionConfig(m.state.currentRegion).highlightRecentMarkers

\* an invalidation that leaves the cache as it is
invalidateRecentKeysCacheNoop(m) == m

invalidateRecentKeysCache(m) ==
  [m EXCEPT !.cachedRecentKeys = Null, !.cachedVisibleCount = -1]

\* computeRecentActivityKeys: the returned set is left in m.cycle.recentKeys
computeRecentActivityKeys(m, visibleActivities) ==
  IF Len(visibleActivities) = 0
  THEN [m EXCEPT !.cachedRecentKeys = Null, !.cachedVisibleCount = 0,
                 !.cycle.recentKeys = {}]
  ELSE IF m.cachedRecentKeys # Null /\ Len(visibleActivities) = m.cachedVisibleCount
  THEN [m EXCEPT !.cycle.recentKeys = ValueOf(m.cachedRecentKeys)]
  ELSE LET sortedByReveal == SortByReveal(visibleActivities)
           keys == KeysOf(SliceLast(sortedByReveal, m.recentMarkerCount))
       IN  [m EXCEPT !.cachedRecentKeys = Some(keys),
                     !.cachedVisibleCount = Len(visibleActivities),
                     !.cycle.recentKeys = keys]

\* the descriptors of buildMarkerDescriptors, given the recent keys
Descriptors(acts, recentKeys) ==
  [i \in 1..Len(acts) |->
     [activity |-> acts[i],
      key |-> createActivityKey(acts[i]),
      variant |-> IF createActivityKey(acts[i]) \in recentKeys
                  THEN "recent" ELSE "cumulative"]]

\* buildMarkerDescriptors: the classifier runs only when the region
\* highlights recent markers; without it every variant is cumulative
buildMarkerDescriptors(m, acts) ==
  IF shouldHighlightRecentMarkers(m)
  THEN computeRecentActivityKeys(m, acts)
  ELSE [m EXCEPT !.cycle.recentKeys = {}]

RegistryMarkers(m) == {m.markerRegistry[k].marker : k \in DOMAIN m.markerRegistry}

MapNotInitialized == "Map not initialized. Call initMap() before updating."

\* requireMapContext: the message of the Error it throws, "" when it returns
requireMapContext(m) == IF m.mapContext = Null THEN MapNotInitialized ELSE ""

\* createMarker: the marker object built for a record in a marker style.
\* Markers of different keys are different objects, and a key's marker is
\* rebuilt only in another style, so key and style tell the objects apart.
createMarker(key, markerStyle) == <<key, markerStyle>>

RemoveKey(registry, key) ==
  [k \in DOMAIN registry \ {key} |-> registry[k]]

\* adjustZIndex: the zIndexOffset given to the marker
adjustZIndexFlat(variant) == 0

adjustZIndex(variant) == IF variant = "recent" THEN 1000 ELSE 0

\* applyMarkerStyle and updateMarkerClasses: a marker without an element is
\* left alone, the element of another shows the variant
applyMarkerStyle(entry, variant) ==
  IF entry.element = "none" THEN entry ELSE [entry EXCEPT !.element = variant]

\* needsRebuild of syncMarker
needsRebuildAlways(m, key, markerStyle) == TRUE

needsRebuildIfAbsent(m, key, markerStyle) == key \notin DOMAIN m.markerRegistry

needsRebuildWithoutElement(m, key, markerStyle) ==
  \/ key \notin DOMAIN m.markerRegistry
  \/ m.markerRegistry[key].style # markerStyle
  \/ m.markerRegistry[key].element = "none"

needsRebuild(m, key, markerStyle) ==
  \/ key \notin DOMAIN m.markerRegistry
  \/ m.markerRegistry[key].style # markerStyle

\* syncMarker.  A marker added to the layer group gets its element from the
\* icon createMarker built for the variant; a marker whose adding is
\* deferred has no element when applyMarkerStyle is called on it.
syncMarker(m, descriptor, markerStyle, deferAdd) ==
  LET key == descriptor.key
      variant == descriptor.variant
      hasExisting == key \in DOMAIN m.markerRegistry
  IN  IF needsRebuild(m, key, markerStyle)
      THEN LET m1 == IF hasExisting
                     THEN [m EXCEPT !.markersLayer = @ \ {m.markerRegistry[key].marker},
                                    !.markerRegistry = RemoveKey(@, key)]
                     ELSE m
               marker == createMarker(key, markerStyle)
               entry == [marker |-> marker, variant |-> variant, style |-> markerStyle,
                         zIndexOffset |-> adjustZIndex(variant),
                         element |-> IF deferAdd THEN "none" ELSE variant]
           IN  [m1 EXCEPT
                  !.markerRegistry = (key :> applyMarkerStyle(entry, variant)) @@ @,
                  !.markersLayer = IF deferAdd THEN @ ELSE @ \cup {marker},
                  !.cycle.pendingAdd = IF deferAdd THEN Append(@, marker) ELSE @,
                  !.cycle.created = @ \cup {key}]
      ELSE IF m.markerRegistry[key].variant # variant
      THEN [m EXCEPT !.markerRegistry[key] =
                        [applyMarkerStyle(@, variant) EXCEPT
                           !.zIndexOffset = adjustZIndex(variant),
                           !.variant = variant],
                     !.cycle.flipped = TRUE]
      ELSE [m EXCEPT !.markerRegistry[key] = applyMarkerStyle(@, variant)]

RECURSIVE SyncAll(_, _, _, _)
SyncAll(m, descriptors, markerStyle, deferAdd) ==
  IF Len(descriptors) = 0 THEN m
  ELSE SyncAll(syncMarker(m, Head(descriptors), markerStyle, deferAdd),
               Tail(descriptors), markerStyle, deferAdd)

\* a reconciler that never removes a marker
removeStaleMarkersKeepsAll(m, visibleKeys) == m

removeStaleMarkers(m, visibleKeys) ==
  LET stale == DOMAIN m.markerRegistry \ visibleKeys
  IN  [m EXCEPT
         !.markersLayer = @ \ {m.markerRegistry[k].marker : k \in stale},
         !.markerRegistry = [k \in DOMAIN @ \ stale |-> @[k]]]

clearMarkers(m) ==
  [m EXCEPT !.markersLayer = {}, !.markerRegistry = <<>>]

syncLayerGroup(m, descriptors, markerStyle) ==
  removeStaleMarkers(SyncAll(m, descriptors, markerStyle, FALSE),
                     {descriptors[i].key : i \in 1..Len(descriptors)})

\* MarkerClusterGroup.addLayers with chunkedLoading (createClusterGroup):
\* the markers are added in array order, and after every CHUNK_SIZE of them
\* the time spent is looked at; past chunkInterval the rest of the array is
\* left to a timeout of chunkDelay ms.  Without m.slow no chunk runs out of
\* time.
addLayers(m, markers) ==
  IF ~m.slow \/ Len(markers) <= CHUNK_SIZE
  THEN [m EXCEPT !.markersLayer = @ \cup {markers[i] : i \in 1..Len(markers)}]
  ELSE [m EXCEPT
          !.markersLayer = @ \cup {markers[i] : i \in 1..CHUNK_SIZE},
          !.pendingChunks =
             @ \cup {{markers[i] : i \in (CHUNK_SIZE + 1)..Len(markers)}}]

\* the timeout of a chunked addLayers: the rest of the array is added
chunkProcess(m, chunk) ==
  [m EXCEPT !.markersLayer = @ \cup chunk, !.pendingChunks = @ \ {chunk}]

\* syncClusterGroup: created markers are added in one batch (addLayers)
syncClusterGroup(m, descriptors, markerStyle) ==
  LET m1 == SyncAll(m, descriptors, markerStyle, TRUE)
      m2 == IF Len(m1.cycle.pendingAdd) > 0
            THEN addLayers(m1, m1.cycle.pendingAdd) ELSE m1
      m3 == [m2 EXCEPT !.cycle.pendingAdd = <<>>]
  IN  removeStaleMarkers(m3, {descriptors[i].key : i \in 1..Len(descriptors)})

\* what a cycle that found the registry of m and left that of n did to the
\* keys it found registered and kept visible
ObserveCycle(m, n) ==
  LET kept == DOMAIN m.markerRegistry \cap DOMAIN n.markerRegistry
      sameStyle == {k \in kept : m.markerRegistry[k].style = n.markerRegistry[k].style}
  IN  [n EXCEPT
         !.cycle.flicker = @ \/ (n.cycle.created \cap sameStyle # {}),
         !.cycle.keptAbsent =
            @ \/ \E k \in sameStyle \ n.cycle.created :
                    m.markerRegistry[k].element = "none",
         !.cycle.absentRecreated =
            @ \/ \E k \in sameStyle \cap n.cycle.created :
                    m.markerRegistry[k].element = "none",
         !.cycle.reused = @ \/ (kept \ n.cycle.created # {}),
         !.cycle.created = {}]

updateMapVisualization(m) ==
  IF requireMapContext(m) # ""
  THEN [m EXCEPT !.cycle.error = requireMapContext(m)]
  ELSE
  LET visibleActivities == selectVisibleActivities(m.activities, m.state)
      m0 == [m EXCEPT !.cycle.ran = @ + 1, !.cycle.recentKeys = {}]
  IN  IF Len(visibleActivities) = 0
      THEN clearMarkers(m0)
      ELSE LET markerStyle == getMarkerStyle(m0)
               m1 == buildMarkerDescriptors(m0, visibleActivities)
               descriptors == Descriptors(visibleActivities, m1.cycle.recentKeys)
           IN  ObserveCycle(m,
                 IF ValueOf(m.mapContext).clusteringEnabled
                 THEN syncClusterGroup(m1, descriptors, markerStyle)
                 ELSE syncLayerGroup(m1, descriptors, markerStyle))

\* getStyleOrDefault: the style of that id, or the first one
MAP_STYLES == <<"osm-standard", "osm-hot", "carto-dark", "carto-positron", "carto-voyager">>

DEFAULT_MAP_STYLE_ID == "carto-dark"

getStyleOrDefault(id) ==
  IF \E i \in 1..Len(MAP_STYLES) : MAP_STYLES[i] = id THEN id ELSE MAP_STYLES[1]

setMapStyle(m, styleId) ==
  IF requireMapContext(m) # ""
  THEN [m EXCEPT !.cycle.error = requireMapContext(m)]
  ELSE [m EXCEPT !.mapContext =
                    Some([ValueOf(@) EXCEPT !.baseLayer = getStyleOrDefault(styleId)])]

\* initMap: the base layer of the default style and an empty markers layer
initMap(m, regionConfig) ==
  IF m.mapContext # Null THEN m
  ELSE [m EXCEPT
          !.mapContext = Some([clusteringEnabled |-> regionConfig.clusteringEnabled,
                               baseLayer |-> getStyleOrDefault(DEFAULT_MAP_STYLE_ID)]),
          !.markersLayer = {},
          !.pendingChunks = {}]

\* a destroyMap that keeps the context of the removed map
destroyMapKeepsContext(m) ==
  IF m.mapContext = Null THEN m
  ELSE [m EXCEPT !.markersLayer = {},
                 !.pendingChunks = {},
                 !.markerRegistry = <<>>,
                 !.cachedRecentKeys = Null,
                 !.cachedVisibleCount = -1]

destroyMap(m) ==
  IF m.mapContext = Null THEN m
  ELSE [m EXCEPT !.markersLayer = {},
                 !.pendingChunks = {},
                 !.markerRegistry = <<>>,
                 !.mapContext = Null,
                 !.cachedRecentKeys = Null,
                 !.cachedVisibleCount = -1]

\* a reinitializeMap that does not destroy the map it finds
reinitializeMapKeepsMap(m, regionConfig) == initMap(m, regionConfig)

reinitializeMap(m, regionConfig) == initMap(destroyMap(m), regionConfig)

\* ------------------------------------------------------------------------
\* state.ts and components/TimelineController.ts
\* ------------------------------------------------------------------------
\* BASE_DAYS_PER_MS: wall-clock time is counted in quanta of
\* 800 / UnitsPerDay ms, so that one quantum at speed 1 is one time unit
BASE_DAYS_PER_MS == 1

\* date-fns addDays with a fractional amount adds the whole days only
addDays(date, amount) == date + (amount \div UnitsPerDay)

\* A time zone: local time is UTC + before hours up to the day change, and
\* UTC + after hours from that day on.
Zone(before, after, change) == [before |-> before, after |-> after, change |-> change]

\* a zone whose offset never changes
UTC == Zone(0, 0, 0)

\* the local wall-clock time of UTC midnight of a date: the same calendar
\* day, at the hour of the zone's offset
LocalTime(zone, date) ==
  [day |-> date, hours |-> IF date < zone.change THEN zone.before ELSE zone.after]

\* compareLocalAsc of date-fns: the sign of the difference of the local
\* calendar fields
compareLocalAsc(left, right) ==
  IF left.day # right.day THEN (IF left.day < right.day THEN -1 ELSE 1)
  ELSE IF left.hours # right.hours THEN (IF left.hours < right.hours THEN -1 ELSE 1)
  ELSE 0

\* date-fns differenceInDays in a time zone: the calendar-day difference,
\* less one when the last local day is not full (setDate moves the later
\* date back by the difference and keeps its wall-clock time)
differenceInDaysIn(zone, laterDate, earlierDate) ==
  LET left == LocalTime(zone, laterDate)
      right == LocalTime(zone, earlierDate)
      sign == compareLocalAsc(left, right)
      difference == Abs(left.day - right.day)
      moved == [left EXCEPT !.day = @ - sign * difference]
      isLastDayNotFull == IF compareLocalAsc(moved, right) = 0 - sign THEN 1 ELSE 0
  IN  sign * (difference - isLastDayNotFull)

\* differenceInDays where the offset of local time is the same at both dates
differenceInDays(end, start) == differenceInDaysIn(UTC, end, start)

\* The clock.  state.lastFrameTime is only read in the difference
\* performance.now() - state.lastFrameTime, and that difference is what is
\* kept, in quanta: sinceLastFrameTime.  A lastFrameTime of 0 is the time
\* the page was loaded at, longer ago than any time kept exactly.
SincePageLoad == 2 * MaxFrameDelta + 1

\* dt quanta of wall-clock time pass
Elapse(m, dt) == [m EXCEPT !.sinceLastFrameTime = Min(SincePageLoad, @ + dt)]

resetToStart(m) ==
  [m EXCEPT !.state.currentDate = m.state.startDate,
            !.state.dayOffset = 0,
            !.state.isPlaying = FALSE,
            !.state.animationFrameId = 0,
            !.sinceLastFrameTime = SincePageLoad]

refreshVisualization(m) == updateMapVisualization(m)

\* a stop that cancels the frame but leaves the playing flag set
stopPlaybackLeavesPlaying(m) ==
  [m EXCEPT !.pendingFrames = IF m.state.animationFrameId # 0
                              THEN @ \ {m.state.animationFrameId} ELSE @,
            !.state.animationFrameId = 0]

stopPlayback(m) ==
  [m EXCEPT !.pendingFrames = IF m.state.animationFrameId # 0
                              THEN @ \ {m.state.animationFrameId} ELSE @,
            !.state.isPlaying = FALSE,
            !.state.animationFrameId = 0]

\* requestAnimationFrame returns an id no pending request has
requestAnimationFrame(m) ==
  LET used == m.pendingFrames \cup {m.state.animationFrameId}
  IN  CHOOSE n \in 1..(Cardinality(used) + 1) : n \notin used

\* an interval counted in whole days
currentIntervalOfDay(newDayOffset) == newDayOffset \div UnitsPerDay

\* Math.floor(newDayOffset / UPDATE_INTERVAL_DAYS)
currentIntervalOf(newDayOffset) == newDayOffset \div UPDATE_INTERVAL_DAYS

\* an animate that does not clamp dayOffset to totalDays
animateStepOvershoots(m) ==
  LET totalDays == differenceInDaysIn(m.ui.zone, m.dateRange.end, m.dateRange.start)
                     * UnitsPerDay
      newDayOffset == m.state.dayOffset
                        + m.sinceLastFrameTime * m.state.playbackSpeed * BASE_DAYS_PER_MS
  IN  IF newDayOffset >= totalDays
      THEN LET m1 == [m EXCEPT !.sinceLastFrameTime = 0,
                               !.state.dayOffset = newDayOffset,
                               !.state.currentDate = m.dateRange.end,
                               !.cycle.advanced = newDayOffset]
               m2 == refreshVisualization(m1)
           IN  IF Threw(m2) THEN m2
               ELSE [stopPlayback(m2) EXCEPT !.restartTimers = @ + 1]
      ELSE LET currentInterval == currentIntervalOf(newDayOffset)
               m1 == [m EXCEPT !.sinceLastFrameTime = 0,
                               !.state.dayOffset = newDayOffset,
                               !.state.currentDate =
                                  addDays(m.dateRange.start, newDayOffset),
                               !.cycle.advanced = newDayOffset]
               m2 == IF currentInterval # m1.lastUpdateInterval
                     THEN refreshVisualization(
                            [m1 EXCEPT !.lastUpdateInterval = currentInterval])
                     ELSE m1
               frameId == requestAnimationFrame(m2)
           IN  IF Threw(m2) THEN m2
               ELSE [m2 EXCEPT !.pendingFrames = @ \cup {frameId},
                               !.state.animationFrameId = frameId,
                               !.cycle.requested = @ + 1]

\* animate past its isPlaying guard; deltaMs is now - state.lastFrameTime,
\* and lastFrameTime becomes now.  The restart timeout it arms at the end of
\* the range is restartCallback below.  An Error thrown by
\* refreshVisualization leaves the rest of the tick undone.
animateStep(m) ==
  LET totalDays == differenceInDaysIn(m.ui.zone, m.dateRange.end, m.dateRange.start)
                     * UnitsPerDay
      deltaMs == m.sinceLastFrameTime
      daysPerMs == m.state.playbackSpeed * BASE_DAYS_PER_MS
      daysToAdvance == deltaMs * daysPerMs
      newDayOffset == m.state.dayOffset + daysToAdvance
  IN  IF newDayOffset >= totalDays
      THEN LET m1 == [m EXCEPT !.sinceLastFrameTime = 0,
                               !.state.dayOffset = totalDays,
                               !.state.currentDate = m.dateRange.end,
                               !.cycle.advanced = newDayOffset]
               m2 == refreshVisualization(m1)
               m3 == stopPlayback(m2)
           IN  IF Threw(m2) THEN m2
               ELSE [m3 EXCEPT !.restartTimers = @ + 1]
      ELSE LET currentInterval == currentIntervalOf(newDayOffset)
               m1 == [m EXCEPT !.sinceLastFrameTime = 0,
                               !.state.dayOffset = newDayOffset,
                               !.state.currentDate =
                                  addDays(m.dateRange.start, newDayOffset),
                               !.cycle.advanced = newDayOffset]
               m2 == IF currentInterval # m1.lastUpdateInterval
                     THEN refreshVisualization(
                            [m1 EXCEPT !.lastUpdateInterval = currentInterval])
                     ELSE m1
               frameId == requestAnimationFrame(m2)
           IN  IF Threw(m2) THEN m2
               ELSE [m2 EXCEPT !.pendingFrames = @ \cup {frameId},
                               !.state.animationFrameId = frameId,
                               !.cycle.requested = @ + 1]

\* a tick that does not look at the playing flag
animateUnguarded(m) == animateStep(m)

animate(m) ==
  IF ~m.state.isPlaying THEN m ELSE animateStep(m)

\* a start that leaves lastFrameTime as it is
startPlaybackKeepsFrameTime(m) ==
  animate([m EXCEPT !.state.isPlaying = TRUE,
                    !.cycle.stopped = m.sinceLastFrameTime])

\* startPlayback sets lastFrameTime to now and calls animate at once
startPlayback(m) ==
  animate([m EXCEPT !.state.isPlaying = TRUE,
                    !.sinceLastFrameTime = 0,
                    !.cycle.stopped = m.sinceLastFrameTime])

togglePlayback(m) == IF m.state.isPlaying THEN stopPlayback(m) ELSE startPlayback(m)

\* a restart that resumes playback without resetting the timeline
restartCallbackNoReset(m) ==
  LET m4 == refreshVisualization(m)
  IN  IF Threw(m4) THEN m4 ELSE startPlayback(m4)

\* the timeout callback armed by animate at the end of the range
restartCallback(m) ==
  LET m1 == resetToStart(m)
      m2 == [m1 EXCEPT !.lastUpdateInterval = -1]
      m3 == invalidateRecentKeysCache(m2)
      m4 == refreshVisualization(m3)
  IN  IF Threw(m4) THEN m4 ELSE startPlayback(m4)

\* a slider handler that also pauses playback
handleSliderChangePauses(m, dayOffset) ==
  LET m1 == [m EXCEPT !.lastUpdateInterval = -1]
      m2 == invalidateRecentKeysCache(m1)
      m3 == [m2 EXCEPT !.state.currentDate = addDays(m.dateRange.start, dayOffset),
                       !.state.dayOffset = dayOffset,
                       !.cycle.input = dayOffset,
                       !.cycle.backward = dayOffset < m.state.dayOffset]
  IN  refreshVisualization(stopPlayback(m3))

handleSliderChange(m, dayOffset) ==
  LET m1 == [m EXCEPT !.lastUpdateInterval = -1]
      m2 == invalidateRecentKeysCache(m1)
      m3 == [m2 EXCEPT !.state.currentDate = addDays(m.dateRange.start, dayOffset),
                       !.state.dayOffset = dayOffset,
                       !.cycle.input = dayOffset,
                       !.cycle.backward = dayOffset < m.state.dayOffset]
  IN  refreshVisualization(m3)

\* a filter change that forgets to invalidate the cache
activityFilterChangeKeepsCache(m, filter) ==
  refreshVisualization([m EXCEPT !.state.activityFilter = filter])

\* the change listener of wireActivityFilter
activityFilterChange(m, filter) ==
  LET m1 == invalidateRecentKeysCache(m)
      m2 == [m1 EXCEPT !.state.activityFilter = filter]
  IN  refreshVisualization(m2)

\* the click listener of wireMarkerStyleToggle
markerStyleToggle(m) ==
  refreshVisualization([m EXCEPT !.state.useSunflowerMarkers = ~@])

setPlaybackSpeed(m, speed) == [m EXCEPT !.state.playbackSpeed = speed]

\* AD_MODE_DURATION_MS, in quanta: a tenth of the time playback at speed 1
\* takes for one day, so that the speed of the ad mode is a whole number
AD_MODE_DURATION_MS == Frac(2)

\* adModeSpeed of enterFullscreen: totalDays / (AD_MODE_DURATION_MS *
\* BASE_DAYS_PER_MS), totalDays in time units
adModeSpeed(m) ==
  (differenceInDaysIn(m.ui.zone, m.dateRange.end, m.dateRange.start) * UnitsPerDay)
    \div (AD_MODE_DURATION_MS * BASE_DAYS_PER_MS)

\* enterFullscreen: the timeline container is hidden, the timeline is reset
\* (playback is not stopped first), and playback is started by a timeout of
\* 500 ms
enterFullscreen(m) ==
  LET m0 == [m EXCEPT !.ui.timelineHidden = TRUE]
      m1 == resetToStart(m0)
      m2 == [m1 EXCEPT !.lastUpdateInterval = -1]
      m3 == invalidateRecentKeysCache(m2)
      m4 == refreshVisualization(m3)
  IN  IF Threw(m4) THEN m4
      ELSE [m4 EXCEPT !.state.isFullscreen = TRUE,
                      !.state.playbackSpeed = adModeSpeed(m4),
                      !.startTimers = @ + 1]

exitFullscreen(m) ==
  LET m0 == [m EXCEPT !.ui.timelineHidden = FALSE]
      m1 == stopPlayback(m0)
      m2 == setPlaybackSpeed(m1, 1)
  IN  [m2 EXCEPT !.state.isFullscreen = FALSE]

toggleFullscreen(m) ==
  IF m.state.isFullscreen THEN exitFullscreen(m) ELSE enterFullscreen(m)

\* the keydown listeners of setupKeyboardShortcuts: every initTimeline adds
\* one to the document, and a key press runs them one after the other (an
\* Error thrown by one does not keep the next from running)
keydownListener(m, code) ==
  IF code = "Space" THEN togglePlayback(m)
  ELSE IF code = "KeyF" THEN toggleFullscreen(m)
  ELSE m

RECURSIVE dispatchKeydown(_, _, _)
dispatchKeydown(m, code, listeners) ==
  IF listeners = 0 THEN m
  ELSE dispatchKeydown(keydownListener(m, code), code, listeners - 1)

\* initTimeline: setupTimelineListeners wires the controls of the new
\* template and adds a keydown listener to the document
initTimeline(m) == [m EXCEPT !.ui.keydownListeners = @ + 1]

\* renderTemplate: a new timeline container, not hidden
renderTemplate(m) == [m EXCEPT !.ui.timelineHidden = FALSE]

\* ------------------------------------------------------------------------
\* Datasets
\* ------------------------------------------------------------------------
\* A dataset is the raw record list together with the values seededRandom
\* returns for its records (revealFraction, in time units).
Dataset(raw, seeded) == [raw |-> raw, seeded |-> seeded]

\* input not ordered by date; the second and third record agree in day,
\* type and count and in their coordinates to five decimal digits; the third
\* and fourth have equal reveal timestamps; the fifth is revealed between two
\* slider steps; the first is revealed at the very end of the range
ScenarioMixed ==
  Dataset(<<Activity(4, "POSTER", 110, 200, 2),
            Activity(3, "HOUSE", 100, 200, 5),
            Activity(3, "HOUSE", 102, 200, 5),
            Activity(3, "POSTER", 130, 200, 4),
            Activity(3, "POSTER", 140, 200, 4)>>,
          <<0, Frac(4), Frac(12), Frac(12), Frac(6) + 1>>)

\* every record on the same day: the range has no whole day
ScenarioOneDay ==
  Dataset(<<Activity(3, "HOUSE", 100, 200, 5),
            Activity(3, "POSTER", 150, 200, 2)>>,
          <<0, Frac(8)>>)

\* a region with clustering: one record shown from the start, one revealed
\* during the first day, one on the last day
ScenarioCluster ==
  Dataset(<<Activity(3, "HOUSE", 100, 200, 5),
            Activity(3, "POSTER", 110, 200, 2),
            Activity(4, "POSTER", 120, 200, 4)>>,
          <<0, Frac(10), 0>>)

\* a range of two days, with records on the first and on the last
ScenarioAutumn ==
  Dataset(<<Activity(3, "HOUSE", 100, 200, 5),
            Activity(5, "POSTER", 110, 200, 2)>>,
          <<0, 0>>)

Scenarios == {ScenarioMixed, ScenarioOneDay}

\* ------------------------------------------------------------------------
\* The state machine
\* ------------------------------------------------------------------------
VARIABLES state, activities, dateRange, lastUpdateInterval, markerRegistry,
          markersLayer, cachedRecentKeys, cachedVisibleCount, pendingFrames,
          restartTimers, startTimers, ui, recentMarkerCount, mapContext,
          pendingChunks, sinceLastFrameTime, cycle, probe

vars == <<state, activities, dateRange, lastUpdateInterval, markerRegistry,
          markersLayer, cachedRecentKeys, cachedVisibleCount, pendingFrames,
          restartTimers, startTimers, ui, recentMarkerCount, mapContext,
          pendingChunks, sinceLastFrameTime, cycle, probe>>

\* Animation frame ids are opaque handles, only compared for equality:
\* after a handler the pending requests are renumbered, the one held in
\* state.animationFrameId first, so that states differing in the ids only
\* are one state.
CompactFrameIds(m) ==
  LET current == m.state.animationFrameId
      others == m.pendingFrames \ {current}
      base == IF current \in m.pendingFrames THEN 1 ELSE 0
  IN  [m EXCEPT !.pendingFrames = 1..(base + Cardinality(others)),
                !.state.animationFrameId =
                   IF current \in m.pendingFrames THEN 1 ELSE current]

\* the current program state as one record
M ==
  [state |-> state, activities |-> activities, dateRange |-> dateRange,
   lastUpdateInterval |-> lastUpdateInterval, markerRegistry |-> markerRegistry,
   markersLayer |-> markersLayer, cachedRecentKeys |-> cachedRecentKeys,
   cachedVisibleCount |-> cachedVisibleCount, pendingFrames |-> pendingFrames,
   restartTimers |-> restartTimers, startTimers |-> startTimers, ui |-> ui,
   recentMarkerCount |-> recentMarkerCount,
   mapContext |-> mapContext, pendingChunks |-> pendingChunks,
   sinceLastFrameTime |-> sinceLastFrameTime, slow |-> FALSE,
   cycle |-> cycle]

\* With probe = Summary only the summary of what a handler did is kept in
\* cycle: how often it reconciled, and with which recent set.
Summary == [fn |-> "summary", done |-> TRUE]

Summarised(c) == [NoCycle("handler") EXCEPT !.ran = c.ran, !.recentKeys = c.recentKeys]

\* the next program state is n
Becomes(n) ==
  LET m == CompactFrameIds(n) IN
  /\ state' = m.state
  /\ activities' = m.activities
  /\ dateRange' = m.dateRange
  /\ lastUpdateInterval' = m.lastUpdateInterval
  /\ markerRegistry' = m.markerRegistry
  /\ markersLayer' = m.markersLayer
  /\ cachedRecentKeys' = m.cachedRecentKeys
  /\ cachedVisibleCount' = m.cachedVisibleCount
  /\ pendingFrames' = m.pendingFrames
  /\ restartTimers' = m.restartTimers
  /\ startTimers' = m.startTimers
  /\ ui' = m.ui
  /\ recentMarkerCount' = m.recentMarkerCount
  /\ mapContext' = m.mapContext
  /\ pendingChunks' = m.pendingChunks
  /\ sinceLastFrameTime' = m.sinceLastFrameTime
  /\ cycle' = IF probe = Summary THEN Summarised(m.cycle) ELSE m.cycle
  /\ probe' = probe

\* the program state is m
Is(m) ==
  /\ state = m.state
  /\ activities = m.activities
  /\ dateRange = m.dateRange
  /\ lastUpdateInterval = m.lastUpdateInterval
  /\ markerRegistry = m.markerRegistry
  /\ markersLayer = m.markersLayer
  /\ cachedRecentKeys = m.cachedRecentKeys
  /\ cachedVisibleCount = m.cachedVisibleCount
  /\ pendingFrames = m.pendingFrames
  /\ restartTimers = m.restartTimers
  /\ startTimers = m.startTimers
  /\ ui = m.ui
  /\ recentMarkerCount = m.recentMarkerCount
  /\ mapContext = m.mapContext
  /\ pendingChunks = m.pendingChunks
  /\ sinceLastFrameTime = m.sinceLastFrameTime
  /\ cycle = m.cycle

\* the module state at load time and the AppState initial value (state.ts),
\* for a dataset and a window size
Loaded(dataset, n) ==
  LET range == computeDateRange(dataset.raw)
  IN  [state |-> [startDate |-> 0, currentDate |-> 0, dayOffset |-> 0,
                  isPlaying |-> FALSE, playbackSpeed |-> 1, isFullscreen |-> FALSE,
                  useSunflowerMarkers |-> TRUE, animationFrameId |-> 0,
                  activityFilter |-> "ALL", currentRegion |-> DEFAULT_REGION],
       activities |-> processActivities(dataset.raw, range.start, dataset.seeded),
       dateRange |-> range,
       lastUpdateInterval |-> -1,
       markerRegistry |-> <<>>,
       markersLayer |-> {},
       cachedRecentKeys |-> Null,
       cachedVisibleCount |-> -1,
       pendingFrames |-> {},
       restartTimers |-> 0,
       startTimers |-> 0,
       ui |-> [timelineHidden |-> FALSE, keydownListeners |-> 0, zone |-> UTC],
       recentMarkerCount |-> n,
       mapContext |-> Null,
       pendingChunks |-> {},
       sinceLastFrameTime |-> SincePageLoad,
       slow |-> FALSE,
       cycle |-> NoCycle("init")]

initializeStartDate(m, date) ==
  [m EXCEPT !.state.startDate = date,
            !.state.currentDate = date,
            !.state.dayOffset = 0]

\* renderRegion as run by init of main.ts for the region of the URL hash
renderRegion(m, regionId) ==
  LET m1 == initializeStartDate(m, m.dateRange.start)
      m2 == resetToStart(m1)
      m3 == [m2 EXCEPT !.state.currentRegion = regionId]
      m4 == renderTemplate(invalidateRecentKeysCache(m3))
      m5 == initTimeline(initMap(m4, getRegionConfig(regionId)))
  IN  updateMapVisualization(m5)

\* the dataset of each region
RegionDataset(regionId) ==
  IF regionId = "karlsruhe" THEN ScenarioCluster ELSE ScenarioOneDay

\* switchRegion, getProcessedActivities and getDateRange: the processed
\* records and the date range of the region's dataset
switchRegion(m, regionId) ==
  LET dataset == RegionDataset(regionId)
      range == computeDateRange(dataset.raw)
  IN  [m EXCEPT !.activities = processActivities(dataset.raw, range.start,
                                                 dataset.seeded),
                !.dateRange = range]

\* a region change that does not recompute the markers of the new region
handleRegionChangeNoUpdate(m, newRegionId) ==
  LET m0 == switchRegion(stopPlayback(m), newRegionId)
      m1 == initializeStartDate(m0, m0.dateRange.start)
      m2 == resetToStart(m1)
      m3 == [m2 EXCEPT !.state.currentRegion = newRegionId]
      m4 == renderTemplate(invalidateRecentKeysCache(m3))
  IN  initTimeline(reinitializeMap(m4, getRegionConfig(newRegionId)))

\* handleRegionChange: stopPlayback, then renderRegion(newRegionId,
\* {reuseMap: true}) with the records of the new region
handleRegionChange(m, newRegionId) ==
  LET m0 == switchRegion(stopPlayback(m), newRegionId)
      m1 == initializeStartDate(m0, m0.dateRange.start)
      m2 == resetToStart(m1)
      m3 == [m2 EXCEPT !.state.currentRegion = newRegionId]
      m4 == renderTemplate(invalidateRecentKeysCache(m3))
      m5 == initTimeline(reinitializeMap(m4, getRegionConfig(newRegionId)))
  IN  updateMapVisualization(m5)

\* probe is used by SpecPure and SpecData only: one call of a pure function
NoProbe == [fn |-> "none", done |-> TRUE]

\* the regions drawn on a layer group, and those drawn on a cluster group
LayerRegions == {r \in DOMAIN REGIONS : ~getRegionConfig(r).clusteringEnabled}

ClusterRegions == {r \in DOMAIN REGIONS : getRegionConfig(r).clusteringEnabled}

\* the page opened on a region without clustering
Init ==
  /\ \E dataset \in Scenarios, n \in 1..MaxWindow, regionId \in LayerRegions :
        Is(renderRegion(Loaded(dataset, n), regionId))
  /\ probe = NoProbe

\* the bounds on armed timeouts, on requested frames, on unfinished chunked
\* batches and on markers left behind on the layer
Bounded(m) ==
  /\ m.restartTimers <= MaxTimers
  /\ m.startTimers <= MaxTimers
  /\ m.ui.keydownListeners <= MaxListeners
  /\ Cardinality(m.pendingFrames) <= MaxFrames
  /\ Cardinality(m.pendingChunks) <= MaxChunks
  /\ Cardinality(m.markersLayer \ RegistryMarkers(m)) <= MaxOrphans

TotalUnits == differenceInDaysIn(ui.zone, dateRange.end, dateRange.start) * UnitsPerDay

\* the values of the timeline slider: min 0, max totalDays, step 0.05
SliderValues == {v \in 0..TotalUnits : v % Frac(1) = 0}

\* whether a chunk of addLayers can run out of its time slice: only a
\* cluster group loads in chunks
SlowChoices ==
  IF mapContext # Null /\ ValueOf(mapContext).clusteringEnabled
  THEN BOOLEAN ELSE {FALSE}

\* the program state at the start of a handler
Handler(op, slow) == [BeginHandler(M, op) EXCEPT !.slow = slow]

\* the controls of the timeline container can be used while it is shown
SliderInput ==
  /\ ~ui.timelineHidden
  /\ \E v \in SliderValues, slow \in SlowChoices :
       LET m == handleSliderChange(Handler("scrub", slow), v)
       IN  Bounded(m) /\ Becomes(m)

ActivityFilterChange ==
  /\ ~ui.timelineHidden
  /\ \E f \in ActivityFilters \ {state.activityFilter}, slow \in SlowChoices :
       LET m == activityFilterChange(Handler("filter", slow), f)
       IN  Bounded(m) /\ Becomes(m)

MarkerStyleToggle ==
  /\ ~ui.timelineHidden
  /\ \E slow \in SlowChoices :
       LET m == markerStyleToggle(Handler("style", slow))
       IN  Bounded(m) /\ Becomes(m)

\* a click on the play button
TogglePlayback ==
  /\ ~ui.timelineHidden
  /\ \E slow \in SlowChoices :
       LET m == togglePlayback(Handler("toggle", slow))
       IN  Bounded(m) /\ Becomes(m)

\* a requested animation frame runs animate, deltaMs quanta later
AnimationFrame ==
  \E id \in pendingFrames, deltaMs \in 1..MaxFrameDelta, slow \in SlowChoices :
     LET m == animate(Elapse([Handler("tick", slow) EXCEPT !.pendingFrames = @ \ {id}],
                             deltaMs))
     IN  Bounded(m) /\ Becomes(m)

\* an end-of-range restart timeout fires
RestartTimer ==
  /\ restartTimers > 0
  /\ \E slow \in SlowChoices :
        LET m == restartCallback([Handler("restart", slow)
                                    EXCEPT !.restartTimers = @ - 1])
        IN  Bounded(m) /\ Becomes(m)

\* the timeout of a chunked addLayers fires
ChunkTimer ==
  \E chunk \in pendingChunks :
     LET m == chunkProcess(BeginHandler(M, "chunk"), chunk)
     IN  Bounded(m) /\ Becomes(m)

Next ==
  \/ SliderInput
  \/ ActivityFilterChange
  \/ MarkerStyleToggle
  \/ TogglePlayback
  \/ AnimationFrame
  \/ RestartTimer

Spec == Init /\ [][Next]_vars

\* the page opened on a region with clustering and used with the timeline
\* paused: the slider, the activity filter, the marker style toggle and the
\* timeouts of chunked loading.  Such a region does not highlight recent
\* markers, so the window size has no effect there.
InitCluster ==
  /\ \E regionId \in ClusterRegions :
        Is(renderRegion(Loaded(ScenarioCluster, 1), regionId))
  /\ probe = NoProbe

NextCluster ==
  \/ SliderInput
  \/ ActivityFilterChange
  \/ MarkerStyleToggle
  \/ ChunkTimer

SpecCluster == InitCluster /\ [][NextCluster]_vars

\* ------------------------------------------------------------------------
\* Calls of the pure functions on inputs drawn from bounded sets
\* ------------------------------------------------------------------------
\* processed records the probed lists are made of: records A, B, C of the
\* end-to-end scenario, a record with A's identity key revealed later that
\* day, and a record with B's reveal timestamp
RecordSeq ==
  processActivities(
    <<Activity(3, "HOUSE", 100, 200, 5),
      Activity(3, "POSTER", 110, 200, 2),
      Activity(4, "HOUSE", 120, 200, 7),
      Activity(3, "HOUSE", 102, 200, 5),
      Activity(3, "POSTER", 150, 200, 2)>>,
    3,
    <<Frac(4), Frac(16), Frac(2), Frac(18), Frac(16)>>)

RecordPool == {RecordSeq[i] : i \in 1..Len(RecordSeq)}

RecordA == CHOOSE a \in RecordPool : a.lat = 100 /\ a.type = "HOUSE"
RecordB == CHOOSE a \in RecordPool : a.lat = 110
RecordC == CHOOSE a \in RecordPool : a.lat = 120

ProbeLists == UNION {[1..k -> RecordPool] : k \in 0..MaxRecords}

\* the lists a whole reconcile cycle is probed on: RecordSeq with any of its
\* records left out
ProbeDatasets ==
  {LET Kept(r) == r \in S IN SelectSeq(RecordSeq, Kept) : S \in SUBSET RecordPool}

\* dayOffset from 0 to 2.1 days
ProbeOffsets == 0..(2 * UnitsPerDay + Frac(2))

\* dayOffset from 0 to 1.15 days: every record of RecordPool is revealed by
\* 1.1 days
ProbeListOffsets == 0..(UnitsPerDay + Frac(3))

\* slider values up to one day
ProbeSliderValues == {v \in 0..UnitsPerDay : v % Frac(1) = 0}

\* ids handed to setMapStyle: a style of MAP_STYLES and an unknown id
ProbeStyleIds == {"osm-hot", "unknown"}

\* the states in which mapContext is null: the module as loaded, before
\* initMap, and a region rendered and scrubbed to dayOffset, after destroyMap
WithoutMap(when, dataset, regionId, dayOffset) ==
  IF when = "loaded" THEN Loaded(dataset, 1)
  ELSE LET rendered == renderRegion(Loaded(dataset, 1), regionId)
           scrubbed == handleSliderChange(BeginHandler(rendered, "scrub"), dayOffset)
       IN  BeginHandler(destroyMap(scrubbed), "init")

\* the state handed to selectVisibleActivities: currentDate as the timeline
\* writes it (start date 3), or one day behind dayOffset
ProbeStates ==
  {[dayOffset |-> d, currentDate |-> addDays(3, d) - lag, activityFilter |-> f] :
     d \in ProbeListOffsets, lag \in {0, 1}, f \in ActivityFilters}

InitPure ==
  /\ Is(Loaded(ScenarioOneDay, 1))
  /\ \/ probe \in
          {[fn |-> "isActivityVisible", done |-> FALSE, result |-> FALSE,
            activity |-> [dayIndex |-> i, revealFraction |-> r], dayOffset |-> d] :
              i \in 0..2, r \in 0..(UnitsPerDay - 1), d \in ProbeOffsets}
     \/ probe \in
          {[fn |-> "selectVisibleActivities", done |-> FALSE, result |-> <<>>,
            activities |-> acts, st |-> st] :
              acts \in ProbeLists, st \in ProbeStates}
     \/ probe \in
          {[fn |-> "computeRecentActivityKeys", done |-> FALSE, result |-> {},
            visible |-> acts, n |-> n] :
              acts \in ProbeLists, n \in 1..MaxWindow}
     \/ probe \in
          {[fn |-> "updateMapVisualization", done |-> FALSE, result |-> <<>>,
            activities |-> acts, dayOffset |-> d, n |-> n] :
              acts \in ProbeDatasets, d \in ProbeListOffsets, n \in 1..MaxWindow}
     \/ probe \in
          {[fn |-> "withoutMap", done |-> FALSE, result |-> Loaded(ScenarioOneDay, 1),
            when |-> w, dataset |-> ds, regionId |-> r, dayOffset |-> d,
            call |-> c, styleId |-> id] :
              w \in {"loaded", "destroyed"}, ds \in Scenarios, r \in DOMAIN REGIONS,
              d \in ProbeSliderValues, c \in {"updateMapVisualization", "setMapStyle"},
              id \in ProbeStyleIds}

UnchangedProgram ==
  UNCHANGED <<state, activities, dateRange, lastUpdateInterval, markerRegistry,
              markersLayer, cachedRecentKeys, cachedVisibleCount, pendingFrames,
              restartTimers, startTimers, ui, recentMarkerCount, mapContext,
              pendingChunks, sinceLastFrameTime, cycle>>

CallIsActivityVisible ==
  /\ probe.fn = "isActivityVisible" /\ ~probe.done
  /\ probe' = [probe EXCEPT !.done = TRUE,
                            !.result = isActivityVisible(probe.activity, probe.dayOffset)]
  /\ UnchangedProgram

CallSelectVisibleActivities ==
  /\ probe.fn = "selectVisibleActivities" /\ ~probe.done
  /\ probe' = [probe EXCEPT !.done = TRUE,
                            !.result = selectVisibleActivities(probe.activities, probe.st)]
  /\ UnchangedProgram

\* the classifier called with an empty cache and window size probe.n
CallComputeRecentActivityKeys ==
  /\ probe.fn = "computeRecentActivityKeys" /\ ~probe.done
  /\ probe' = [probe EXCEPT
                 !.done = TRUE,
                 !.result = computeRecentActivityKeys(
                               [M EXCEPT !.recentMarkerCount = probe.n],
                               probe.visible).cycle.recentKeys]
  /\ UnchangedProgram

\* one reconcile cycle on an empty map: select, classify with window size
\* probe.n, reconcile; the result is the marker registry
CallUpdateMapVisualization ==
  /\ probe.fn = "updateMapVisualization" /\ ~probe.done
  /\ probe' = [probe EXCEPT
                 !.done = TRUE,
                 !.result = updateMapVisualization(
                               initMap(
                                 [M EXCEPT !.activities = probe.activities,
                                           !.recentMarkerCount = probe.n,
                                           !.state.dayOffset = probe.dayOffset,
                                           !.state.currentDate =
                                              addDays(3, probe.dayOffset)],
                                 getRegionConfig(state.currentRegion))).markerRegistry]
  /\ UnchangedProgram

\* updateMapVisualization or setMapStyle called while mapContext is null;
\* the result is the program state the call leaves
CallWithoutMap ==
  /\ probe.fn = "withoutMap" /\ ~probe.done
  /\ LET m == WithoutMap(probe.when, probe.dataset, probe.regionId, probe.dayOffset)
     IN  probe' = [probe EXCEPT
                     !.done = TRUE,
                     !.result = IF probe.call = "setMapStyle"
                                THEN setMapStyle(m, probe.styleId)
                                ELSE updateMapVisualization(m)]
  /\ UnchangedProgram

NextPure ==
  \/ CallUpdateMapVisualization
  \/ CallIsActivityVisible
  \/ CallSelectVisibleActivities
  \/ CallComputeRecentActivityKeys
  \/ CallWithoutMap

SpecPure == InitPure /\ [][NextPure]_vars

\* ------------------------------------------------------------------------
\* The whole page: both regions with their datasets, the speed select, the
\* keyboard, fullscreen ad mode and region changes
\* ------------------------------------------------------------------------
\* the change listener of wireSpeedSelect
SpeedSelect ==
  /\ ~ui.timelineHidden
  /\ \E speed \in PLAYBACK_SPEEDS \ {state.playbackSpeed} :
        LET m == setPlaybackSpeed(BeginHandler(M, "speed"), speed)
        IN  Bounded(m) /\ Becomes(m)

\* a click on the fullscreen button
FullscreenButton ==
  /\ ~ui.timelineHidden
  /\ \E slow \in SlowChoices :
        LET m == toggleFullscreen(Handler("fullscreen", slow))
        IN  Bounded(m) /\ Becomes(m)

\* the Space key or the F key pressed
KeyDown ==
  \E code \in {"Space", "KeyF"}, slow \in SlowChoices :
     LET m == dispatchKeydown(Handler(code, slow), code, ui.keydownListeners)
     IN  Bounded(m) /\ Becomes(m)

\* the timeout of enterFullscreen fires: startPlayback
StartTimer ==
  /\ startTimers > 0
  /\ \E slow \in SlowChoices :
        LET m == startPlayback([Handler("start", slow) EXCEPT !.startTimers = @ - 1])
        IN  Bounded(m) /\ Becomes(m)

\* a hashchange event: the region of the new hash is rendered
RegionChange ==
  \E regionId \in DOMAIN REGIONS :
     \E slow \in IF getRegionConfig(regionId).clusteringEnabled
                 THEN BOOLEAN ELSE {FALSE} :
        LET m == handleRegionChange(Handler("region", slow), regionId)
        IN  Bounded(m) /\ Becomes(m)

\* the page opened on either region, the recent window one marker wide
InitApp ==
  /\ \E regionId \in DOMAIN REGIONS :
        Is(renderRegion(Loaded(RegionDataset(regionId), 1), regionId))
  /\ probe = Summary

\* the timeline with its speeds, fullscreen and region changes; filter and
\* marker style stay as they are at load time
NextApp ==
  \/ SliderInput
  \/ TogglePlayback
  \/ SpeedSelect
  \/ FullscreenButton
  \/ KeyDown
  \/ AnimationFrame
  \/ RestartTimer
  \/ StartTimer
  \/ RegionChange

SpecApp == InitApp /\ [][NextApp]_vars

\* the timeline at the speeds of load time and of the ad mode, with the
\* filter, the marker style, fullscreen and region changes
NextFiltered ==
  \/ SliderInput
  \/ ActivityFilterChange
  \/ MarkerStyleToggle
  \/ TogglePlayback
  \/ FullscreenButton
  \/ KeyDown
  \/ AnimationFrame
  \/ RestartTimer
  \/ StartTimer
  \/ RegionChange

SpecFiltered == InitApp /\ [][NextFiltered]_vars

\* the page opened on either region and used with the play button, the
\* slider, the keyboard, fullscreen and region changes, at the speeds of
\* load time and of the ad mode; what each handler did is kept in full
InitPage ==
  /\ \E regionId \in DOMAIN REGIONS :
        Is(renderRegion(Loaded(RegionDataset(regionId), 1), regionId))
  /\ probe = NoProbe

NextPage ==
  \/ SliderInput
  \/ TogglePlayback
  \/ FullscreenButton
  \/ KeyDown
  \/ AnimationFrame
  \/ RestartTimer
  \/ StartTimer
  \/ RegionChange

SpecPage == InitPage /\ [][NextPage]_vars

\* wall-clock time passes between two events, one quantum at a time, for as
\* long as the time since lastFrameTime is kept exactly
TimePasses ==
  /\ sinceLastFrameTime + MaxFrameDelta < SincePageLoad
  /\ Becomes(Elapse(BeginHandler(M, "time"), 1))

\* the page opened on the region without clustering and played, scrubbed,
\* stopped and restarted at every speed of the speed select while time passes
InitClock ==
  /\ \E regionId \in LayerRegions : Is(renderRegion(Loaded(ScenarioMixed, 1), regionId))
  /\ probe = NoProbe

NextClock ==
  \/ SliderInput
  \/ TogglePlayback
  \/ SpeedSelect
  \/ AnimationFrame
  \/ RestartTimer
  \/ TimePasses

SpecClock == InitClock /\ [][NextClock]_vars

\* the page opened on the region without clustering in a browser whose time
\* zone has no change of offset, or has one inside the date range
PageZones == {UTC, Zone(2, 1, 5), Zone(1, 2, 5)}

InitZone ==
  /\ \E zone \in PageZones, regionId \in LayerRegions :
        Is(renderRegion([Loaded(ScenarioAutumn, 1) EXCEPT !.ui.zone = zone], regionId))
  /\ probe = NoProbe

NextZone ==
  \/ SliderInput
  \/ TogglePlayback
  \/ AnimationFrame
  \/ RestartTimer

SpecZone == InitZone /\ [][NextZone]_vars

\* ------------------------------------------------------------------------
\* The data pipeline, one call at a time: the normalizer on raw records,
\* seededRandom on a seed, the batch aggregation on transformed records
\* ------------------------------------------------------------------------
\* raw records of three dates, one of a category the visualization does not
\* know and one without a latitude
RawSeq ==
  <<Activity(3, "HOUSE", 100, 200, 5),
    Activity(4, "POSTER", 110, 200, 2),
    Activity(6, "HOUSE", 120, 200, 7),
    Activity(4, "FLYER", 130, 200, 1),
    Activity(6, "POSTER", undefined, 200, 3)>>

RawPool == {RawSeq[i] : i \in 1..Len(RawSeq)}

RawLists == UNION {[1..k -> RawPool] : k \in 1..MaxRecords}

RawDates == {a.date : a \in RawPool}

\* the values seededRandom returns by input position
ProbeSeeded == [idx \in 1..MaxRecords |-> Frac(idx)]

\* the browser's time zone: no change of offset, or daylight saving time
\* ending (UTC+2 to UTC+1) or beginning (UTC+1 to UTC+2) on day 5
ProbeZones == {UTC, Zone(2, 1, 5), Zone(1, 2, 5)}

\* seeds around zero, two units of 1.0 to either side
ProbeSeeds == (0 - 2 * One)..(2 * One)

\* records handed to the aggregation: two in one grid cell on one day, one
\* of the other type in that cell, one in the next cell, one on another day
AggregateSeq ==
  <<Activity(3, "HOUSE", 49000100, 8400200, 5),
    Activity(3, "HOUSE", 49000400, 8399800, 2),
    Activity(3, "POSTER", 49000100, 8400200, 1),
    Activity(3, "HOUSE", 49000600, 8400200, 3),
    Activity(4, "HOUSE", 49000100, 8400200, 4)>>

AggregatePool == {AggregateSeq[i] : i \in 1..Len(AggregateSeq)}

AggregateLists == UNION {[1..k -> AggregatePool] : k \in 0..MaxRecords}

InitData ==
  /\ Is(Loaded(ScenarioOneDay, 1))
  /\ \/ probe \in
          {[fn |-> "processActivities", done |-> FALSE, result |-> <<>>,
            totalDays |-> 0, activities |-> acts, startDate |-> d, zone |-> z] :
              acts \in RawLists, d \in RawDates, z \in ProbeZones}
     \/ probe \in
          {[fn |-> "seededRandom", done |-> FALSE, result |-> 0, again |-> 0,
            seed |-> seed] : seed \in ProbeSeeds}
     \/ probe \in
          {[fn |-> "aggregateByDateAndLocation", done |-> FALSE, result |-> <<>>,
            activities |-> acts] : acts \in AggregateLists}

\* the normalizer run on raw records with a start date, and the length of
\* the records' date range as the timeline computes it in the browser's zone
CallProcessActivities ==
  /\ probe.fn = "processActivities" /\ ~probe.done
  /\ LET range == computeDateRange(probe.activities)
     IN  probe' = [probe EXCEPT
                     !.done = TRUE,
                     !.result = processActivities(probe.activities, probe.startDate,
                                                  ProbeSeeded),
                     !.totalDays = differenceInDaysIn(probe.zone, range.end, range.start)]
  /\ UnchangedProgram

\* seededRandom called twice on one seed
CallSeededRandom ==
  /\ probe.fn = "seededRandom" /\ ~probe.done
  /\ probe' = [probe EXCEPT !.done = TRUE,
                            !.result = seededRandom(probe.seed),
                            !.again = seededRandom(probe.seed)]
  /\ UnchangedProgram

CallAggregateByDateAndLocation ==
  /\ probe.fn = "aggregateByDateAndLocation" /\ ~probe.done
  /\ probe' = [probe EXCEPT !.done = TRUE,
                            !.result = aggregateByDateAndLocation(probe.activities)]
  /\ UnchangedProgram

NextData ==
  \/ CallProcessActivities
  \/ CallSeededRandom
  \/ CallAggregateByDateAndLocation

SpecData == InitData /\ [][NextData]_vars

\* ------------------------------------------------------------------------
\* Properties
\* ------------------------------------------------------------------------
VisibleNow == selectVisibleActivities(activities, state)

\* the recent set a classification with an empty cache returns for the
\* current visible list
FreshRecentKeys ==
  IF Len(VisibleNow) = 0 \/ ~shouldHighlightRecentMarkers(M) THEN {}
  ELSE computeRecentActivityKeys(
         [M EXCEPT !.cachedRecentKeys = Null, !.cachedVisibleCount = -1],
         VisibleNow).cycle.recentKeys

\* C1: after every call of updateMapVisualization, whatever sequence of
\* ticks, scrubs, filter changes, style toggles and restarts led to it, the
\* key set of markerRegistry is exactly the set of identity keys of
\* selectVisibleActivities(activities, state), also when that set is empty.
RegistryMatchesVisible ==
  cycle.ran > 0 => DOMAIN markerRegistry = KeysOf(VisibleNow)

\* a backward scrub has reconciled: some markers stayed, some records left
RegistryMatchesVisibleWitness ==
  /\ cycle.op = "scrub" /\ cycle.backward /\ cycle.ran > 0
  /\ DOMAIN markerRegistry # {}
  /\ Len(VisibleNow) < Len(activities)

\* C3: visibility is monotone in time: in every step that moves dayOffset
\* forward with the filter unchanged, every record that was visible stays
\* visible, and no marker leaves the map, so forward playback never loses a
\* record.
VisibilityMonotone ==
  [][(state'.dayOffset > state.dayOffset
        /\ state'.activityFilter = state.activityFilter)
       => /\ \A i \in 1..Len(activities) :
               isActivityVisible(activities[i], state.dayOffset)
                 => isActivityVisible(activities[i], state'.dayOffset)
          /\ DOMAIN markerRegistry \subseteq DOMAIN markerRegistry']_vars

\* a playback tick has moved past the reveal day of a record, which is
\* still on the map
VisibilityMonotoneWitness ==
  /\ cycle.op = "tick" /\ cycle.ran > 0
  /\ \E i \in 1..Len(activities) :
       /\ isActivityVisible(activities[i], state.dayOffset)
       /\ activities[i].dayIndex < state.dayOffset \div UnitsPerDay
       /\ createActivityKey(activities[i]) \in DOMAIN markerRegistry

\* C7: after a slider input (backward too) or a filter change, the recent
\* set used by that reconcile cycle holds no key of a record that is not
\* visible now.
RecentKeysVisibleAfterInvalidation ==
  (cycle.op \in {"scrub", "filter"} /\ cycle.ran > 0)
    => cycle.recentKeys \subseteq KeysOf(VisibleNow)

\* a filter change has reconciled a visible list as long as the one the
\* cache was computed for
RecentKeysVisibleAfterInvalidationWitness ==
  /\ cycle.op = "filter" /\ cycle.ran > 0
  /\ state.activityFilter = "POSTER"
  /\ cycle.recentKeys # {}
  /\ Len(VisibleNow) = Len(filterActivities(
                             getVisibleActivitiesUpTo(activities, state.currentDate,
                                                      state.dayOffset), "HOUSE"))

\* C8: determinism: the recent set a reconcile cycle uses, and the variant
\* of every registered key, are those a run with no history computes from
\* the dataset, dayOffset and filter alone.
ClassificationDeterministic ==
  cycle.ran > 0 =>
    /\ cycle.recentKeys = FreshRecentKeys
    /\ \A k \in DOMAIN markerRegistry :
         markerRegistry[k].variant =
           IF k \in FreshRecentKeys THEN "recent" ELSE "cumulative"

\* a tick has reconciled from a cache that was filled earlier, with both
\* variants on the map
ClassificationDeterministicWitness ==
  /\ cycle.op = "tick" /\ cycle.ran > 0
  /\ \E k \in DOMAIN markerRegistry : markerRegistry[k].variant = "recent"
  /\ \E k \in DOMAIN markerRegistry : markerRegistry[k].variant = "cumulative"

\* the cache is empty or holds the recent set of the current visible list
CacheMatchesVisible ==
  \/ cachedRecentKeys = Null
  \/ /\ cachedVisibleCount = Len(VisibleNow)
     /\ ValueOf(cachedRecentKeys) = FreshRecentKeys

\* a handler that reached the end of the range: only the end branch of
\* animate reconciles at dayOffset = totalDays in these handlers
ReachedEnd ==
  /\ cycle.op \in {"tick", "toggle", "restart"}
  /\ cycle.ran > 0
  /\ state.dayOffset = TotalUnits

\* C10 as amended: when playback reaches the end of the range it stops and
\* a restart timeout is armed; when the timeout fires, dayOffset is reset to
\* 0, the cache is invalidated, a recompute runs at dayOffset 0, and, if the
\* range has at least one whole day, isPlaying is true again.
LoopRestart ==
  /\ ReachedEnd => (~state.isPlaying /\ restartTimers > 0)
  /\ cycle.op = "restart" =>
       /\ cycle.ran > 0
       /\ CacheMatchesVisible
       /\ RegistryMatchesVisible
       /\ TotalUnits > 0 => (state.dayOffset = 0 /\ state.isPlaying)
       /\ TotalUnits = 0 => (state.dayOffset = 0 /\ restartTimers > 0)

\* the restart timeout has fired on a range of at least one day
LoopRestartWitness ==
  /\ cycle.op = "restart"
  /\ TotalUnits > 0
  /\ state.isPlaying
  /\ restartTimers = 0

\* C10 as stated: after the restart timeout has fired, dayOffset is 0 and
\* isPlaying is true.
LoopRestartAlwaysPlaying ==
  cycle.op = "restart" => (state.dayOffset = 0 /\ state.isPlaying)

\* the whole days of a dayOffset: the w with w days <= dayOffset < w + 1 days
FloorDays(d) ==
  CHOOSE w \in 0..d : w * UnitsPerDay <= d /\ d < (w + 1) * UnitsPerDay

\* C2: isActivityVisible(record, dayOffset) is true exactly when
\* record.dayIndex < floor(dayOffset), or record.dayIndex = floor(dayOffset)
\* and dayOffset - floor(dayOffset) >= record.revealFraction.
VisibleIffRevealed ==
  (probe.fn = "isActivityVisible" /\ probe.done) =>
    LET W == FloorDays(probe.dayOffset)
        F == probe.dayOffset - W * UnitsPerDay
    IN  probe.result <=>
          \/ probe.activity.dayIndex < W
          \/ (probe.activity.dayIndex = W /\ F >= probe.activity.revealFraction)

\* the predicate was called at the very reveal point of a record
VisibleIffRevealedWitness ==
  /\ probe.fn = "isActivityVisible" /\ probe.done /\ probe.result
  /\ probe.activity.dayIndex = 1
  /\ probe.activity.revealFraction > 0
  /\ probe.dayOffset = UnitsPerDay + probe.activity.revealFraction

\* C4: selectVisibleActivities returns exactly the records that are visible
\* at state.dayOffset, dated on or before state.currentDate and of the
\* filtered type (ALL accepts both), in the input order.
SelectVisibleExact ==
  (probe.fn = "selectVisibleActivities" /\ probe.done) =>
    LET acts == probe.activities
        st == probe.st
        kept == {i \in 1..Len(acts) :
                   /\ isActivityVisible(acts[i], st.dayOffset)
                   /\ acts[i].date <= st.currentDate
                   /\ (st.activityFilter = "ALL" \/ acts[i].type = st.activityFilter)}
        Rank(i) == Cardinality({j \in kept : j <= i})
    IN  /\ Len(probe.result) = Cardinality(kept)
        /\ \A i \in kept : probe.result[Rank(i)] = acts[i]

\* the selector dropped one record of three by type and kept two unlike ones
SelectVisibleExactWitness ==
  /\ probe.fn = "selectVisibleActivities" /\ probe.done
  /\ probe.st.activityFilter = "HOUSE"
  /\ Len(probe.activities) = 3
  /\ Len(probe.result) = 2
  /\ probe.result[1] # probe.result[2]
  /\ probe.result[2].date = probe.st.currentDate

RecentCalled == probe.fn = "computeRecentActivityKeys" /\ probe.done

ProbeTimestamp(i) == getRevealTimestamp(probe.visible[i])

ProbeKey(i) == createActivityKey(probe.visible[i])

ProbeIsRecent(i) == ProbeKey(i) \in probe.result

\* the recent set is the key set of min(n, length) records none of which is
\* revealed before a record left out
RecentKeysOfLatest ==
  \E S \in SUBSET (1..Len(probe.visible)) :
     /\ Cardinality(S) = Min(probe.n, Len(probe.visible))
     /\ \A i \in S, j \in (1..Len(probe.visible)) \ S :
          ProbeTimestamp(i) >= ProbeTimestamp(j)
     /\ probe.result = {ProbeKey(i) : i \in S}

\* C5 as stated: the recent set is the key set of the N latest revealed
\* records, every record classified recent has a reveal timestamp >= that of
\* every record classified cumulative, and with N >= length all are recent.
RecentNotBeforeCumulative ==
  RecentCalled =>
    /\ RecentKeysOfLatest
    /\ \A i, j \in 1..Len(probe.visible) :
         (ProbeIsRecent(i) /\ ~ProbeIsRecent(j))
           => ProbeTimestamp(i) >= ProbeTimestamp(j)
    /\ probe.n >= Len(probe.visible)
         => \A i \in 1..Len(probe.visible) : ProbeIsRecent(i)

\* C5 as amended: the recent set is the key set of the N latest revealed
\* records; every record classified recent has, or shares its identity key
\* with a record that has, a reveal timestamp >= that of every record
\* classified cumulative; with N >= length all are recent.
RecentSharesKeyWithLatest ==
  RecentCalled =>
    /\ RecentKeysOfLatest
    /\ \A i, j \in 1..Len(probe.visible) :
         (ProbeIsRecent(i) /\ ~ProbeIsRecent(j))
           => \E i2 \in 1..Len(probe.visible) :
                /\ ProbeKey(i2) = ProbeKey(i)
                /\ ProbeTimestamp(i2) >= ProbeTimestamp(j)
    /\ probe.n >= Len(probe.visible)
         => \A i \in 1..Len(probe.visible) : ProbeIsRecent(i)

\* three records, window smaller than the list: both classes occur
RecentSharesKeyWithLatestWitness ==
  /\ RecentCalled
  /\ Len(probe.visible) = 3 /\ probe.n < 3
  /\ \E i \in 1..3 : ProbeIsRecent(i)
  /\ \E j \in 1..3 : ~ProbeIsRecent(j)

ProbeKeysDistinct ==
  \A i, j \in 1..Len(probe.visible) : ProbeKey(i) = ProbeKey(j) => i = j

\* C6 as stated: the recent set has exactly min(N, length) elements.
RecentSizeIsMin ==
  RecentCalled =>
    Cardinality(probe.result) = Min(probe.n, Len(probe.visible))

\* C6 as amended: the recent set has at most min(N, length) elements, and
\* exactly that many when the identity keys of the visible records are
\* pairwise distinct.
RecentSizeAtMostMin ==
  RecentCalled =>
    /\ Cardinality(probe.result) <= Min(probe.n, Len(probe.visible))
    /\ ProbeKeysDistinct
         => Cardinality(probe.result) = Min(probe.n, Len(probe.visible))

\* a list longer than the window, with distinct keys: exactly N recent keys
RecentSizeAtMostMinWitness ==
  /\ RecentCalled
  /\ ProbeKeysDistinct
  /\ Len(probe.visible) > probe.n
  /\ Cardinality(probe.result) = probe.n

ScenarioList == <<RecordA, RecordB, RecordC>>

KeyA == createActivityKey(RecordA)
KeyB == createActivityKey(RecordB)
KeyC == createActivityKey(RecordC)

ScenarioCycle ==
  /\ probe.fn = "updateMapVisualization" /\ probe.done
  /\ probe.activities = ScenarioList

\* C9 as stated: for records A (day 0, 0.2), B (day 0, 0.8), C (day 1, 0.1)
\* and filter ALL the visible set is A at dayOffset 0.5, A, B at 0.9 and
\* A, B, C at 1.05; with window size 1 at 1.05 the recent set is C, and A
\* and B are cumulative.
EndToEndScenarioAt105 ==
  ScenarioCycle =>
    /\ probe.dayOffset = Frac(10) => DOMAIN probe.result = {KeyA}
    /\ probe.dayOffset = Frac(18) => DOMAIN probe.result = {KeyA, KeyB}
    /\ probe.dayOffset = Frac(21) =>
         /\ DOMAIN probe.result = {KeyA, KeyB, KeyC}
         /\ probe.n = 1 =>
              /\ probe.result[KeyC].variant = "recent"
              /\ probe.result[KeyA].variant = "cumulative"
              /\ probe.result[KeyB].variant = "cumulative"

\* C9 as amended: the visible set is A at dayOffset 0.5, A, B at 0.9 and
\* still A, B at 1.05, where with window size 1 B is recent; C, revealed at
\* 1.1, makes it A, B, C at dayOffset 1.1, where with window size 1 the
\* recent set is C, and A and B are cumulative.
EndToEndScenario ==
  ScenarioCycle =>
    /\ probe.dayOffset = Frac(10) => DOMAIN probe.result = {KeyA}
    /\ probe.dayOffset = Frac(18) => DOMAIN probe.result = {KeyA, KeyB}
    /\ probe.dayOffset = Frac(21) =>
         /\ DOMAIN probe.result = {KeyA, KeyB}
         /\ probe.n = 1 =>
              /\ probe.result[KeyB].variant = "recent"
              /\ probe.result[KeyA].variant = "cumulative"
    /\ probe.dayOffset = Frac(22) =>
         /\ DOMAIN probe.result = {KeyA, KeyB, KeyC}
         /\ probe.n = 1 =>
              /\ probe.result[KeyC].variant = "recent"
              /\ probe.result[KeyA].variant = "cumulative"
              /\ probe.result[KeyB].variant = "cumulative"

\* the cycle ran on A, B, C at dayOffset 1.1 with window size 1
EndToEndScenarioWitness ==
  /\ ScenarioCycle
  /\ probe.dayOffset = Frac(22)
  /\ probe.n = 1
  /\ RecordA.dayIndex = 0 /\ RecordA.revealFraction = Frac(4)
  /\ RecordB.dayIndex = 0 /\ RecordB.revealFraction = Frac(16)
  /\ RecordC.dayIndex = 1 /\ RecordC.revealFraction = Frac(2)
  /\ DOMAIN probe.result = {KeyA, KeyB, KeyC}

\* ------------------------------------------------------------------------
\* The timeline controller
\* ------------------------------------------------------------------------
\* the handler ran animate, and the last animate it ran computed a
\* newDayOffset of at least totalDays
EndTick ==
  /\ cycle.op \in {"tick", "toggle", "restart"}
  /\ cycle.advanced >= TotalUnits

\* C11: on the tick whose advanced dayOffset is at least totalDays, dayOffset
\* is totalDays, currentDate is the end of the range, the tick ran exactly
\* one recompute, at the clamped offset, isPlaying is false and the tick
\* requested no further frame.
EndTickClampsAndStops ==
  EndTick =>
    /\ state.dayOffset = TotalUnits
    /\ state.currentDate = dateRange.end
    /\ cycle.ran = (IF cycle.op = "restart" THEN 2 ELSE 1)
    /\ DOMAIN markerRegistry = KeysOf(VisibleNow)
    /\ ~state.isPlaying
    /\ state.animationFrameId = 0
    /\ cycle.requested = 0

\* a frame overshot the end of a range of at least one day
EndTickClampsAndStopsWitness ==
  /\ cycle.op = "tick"
  /\ TotalUnits > 0
  /\ cycle.advanced > TotalUnits
  /\ state.dayOffset = TotalUnits
  /\ cycle.ran = 1

\* C12: after stopPlayback isPlaying is false and animationFrameId is null;
\* a frame requested earlier that still fires while playback is stopped does
\* not advance dayOffset and does not recompute; and while playback is
\* stopped dayOffset changes only by startPlayback, a scrub or a reset.
StoppedFramesDoNothing ==
  [][/\ (state.isPlaying /\ cycle'.op = "toggle") =>
          (~state'.isPlaying /\ state'.animationFrameId = 0)
     /\ (~state.isPlaying /\ cycle'.op = "tick") =>
          /\ state' = state
          /\ cycle'.ran = 0
          /\ markerRegistry' = markerRegistry
          /\ markersLayer' = markersLayer
          /\ lastUpdateInterval' = lastUpdateInterval
          /\ pendingFrames' \subseteq pendingFrames
     /\ (~state.isPlaying /\ state'.dayOffset # state.dayOffset) =>
          cycle'.op \in {"toggle", "scrub", "restart"}]_vars

\* a requested frame fired while playback was stopped away from the end of
\* the range, and animate returned at its guard
StoppedFramesDoNothingWitness ==
  /\ cycle.op = "tick"
  /\ cycle.advanced = -1
  /\ ~state.isPlaying
  /\ state.animationFrameId = 0
  /\ state.dayOffset < TotalUnits

\* C13: handleSliderChange, playing or paused, sets dayOffset to the slider
\* value and currentDate to the start date plus that value, leaves isPlaying,
\* playbackSpeed, activityFilter and the pending frame as they are,
\* invalidates the recent-keys cache and runs one recompute.
ScrubSetsOffsetOnly ==
  /\ [](cycle.op = "scrub" =>
         /\ cycle.recentKeys = FreshRecentKeys
         /\ cachedRecentKeys # Null =>
              /\ cachedVisibleCount = Len(VisibleNow)
              /\ ValueOf(cachedRecentKeys) = cycle.recentKeys)
  /\ [][cycle'.op = "scrub" =>
       /\ state'.dayOffset = cycle'.input
       /\ state'.currentDate = addDays(dateRange.start, cycle'.input)
       /\ state'.isPlaying = state.isPlaying
       /\ state'.playbackSpeed = state.playbackSpeed
       /\ state'.activityFilter = state.activityFilter
       /\ state'.animationFrameId = state.animationFrameId
       /\ pendingFrames' = pendingFrames
       /\ restartTimers' = restartTimers
       /\ lastUpdateInterval' = -1
       /\ cycle'.ran = 1]_vars

\* the slider was moved back during playback while a cache of another
\* visible list was held
ScrubSetsOffsetOnlyWitness ==
  /\ cycle.op = "scrub"
  /\ cycle.backward
  /\ state.isPlaying
  /\ state.animationFrameId # 0
  /\ state.dayOffset = cycle.input
  /\ cycle.ran = 1

\* C14: a tick that does not reach the end of the range runs the pipeline
\* exactly when floor(newDayOffset / UPDATE_INTERVAL_DAYS) differs from
\* lastUpdateInterval; otherwise it only advances dayOffset and currentDate,
\* and the registry is unchanged.
TickRecomputesOnNewInterval ==
  [][(cycle'.op = "tick" /\ state.isPlaying /\ cycle'.advanced < TotalUnits) =>
       /\ cycle'.advanced > state.dayOffset
       /\ state'.dayOffset = cycle'.advanced
       /\ state'.currentDate = dateRange.start + (cycle'.advanced \div UnitsPerDay)
       /\ cycle'.ran \in {0, 1}
       /\ cycle'.ran = 1 <=>
            (cycle'.advanced \div UPDATE_INTERVAL_DAYS) # lastUpdateInterval
       /\ cycle'.ran = 1 =>
            lastUpdateInterval' = cycle'.advanced \div UPDATE_INTERVAL_DAYS
       /\ cycle'.ran = 0 =>
            /\ markerRegistry' = markerRegistry
            /\ markersLayer' = markersLayer
            /\ cachedRecentKeys' = cachedRecentKeys
            /\ cachedVisibleCount' = cachedVisibleCount
            /\ lastUpdateInterval' = lastUpdateInterval]_vars

\* a tick stayed within the update interval of the tick before it, at a
\* dayOffset where a record not yet on the map is already revealed
TickRecomputesOnNewIntervalWitness ==
  /\ cycle.op = "tick"
  /\ state.isPlaying
  /\ cycle.advanced = state.dayOffset
  /\ cycle.ran = 0
  /\ state.dayOffset \div UPDATE_INTERVAL_DAYS = lastUpdateInterval
  /\ DOMAIN markerRegistry # KeysOf(VisibleNow)

\* ------------------------------------------------------------------------
\* The reconciler
\* ------------------------------------------------------------------------
\* C15: after every reconcile cycle the variant of each registry entry is
\* the classification of its key in that cycle, and the z-index offset of
\* its marker is 1000 for a recent and 0 for a cumulative entry, also for an
\* entry whose variant the cycle flipped.
VariantAndZIndexFollowClassification ==
  cycle.ran > 0 =>
    \A k \in DOMAIN markerRegistry :
       /\ markerRegistry[k].variant =
            (IF k \in cycle.recentKeys THEN "recent" ELSE "cumulative")
       /\ markerRegistry[k].zIndexOffset =
            (IF k \in cycle.recentKeys THEN 1000 ELSE 0)
       /\ markerRegistry[k].element \in {"none", markerRegistry[k].variant}

\* a cycle flipped the variant of a marker it kept, and the registry holds
\* a recent and a cumulative entry
VariantAndZIndexFollowClassificationWitness ==
  /\ cycle.ran > 0
  /\ cycle.flipped
  /\ \E k \in DOMAIN markerRegistry : markerRegistry[k].zIndexOffset = 1000
  /\ \E k \in DOMAIN markerRegistry :
        /\ markerRegistry[k].zIndexOffset = 0
        /\ markerRegistry[k].variant = "cumulative"

\* the marker style of the toggle
CurrentStyle == IF state.useSunflowerMarkers THEN "sunflower" ELSE "simple"

\* C16: when the current marker style differs from the style stored in a
\* registry entry, the reconcile cycle removes the old marker from the layer
\* and creates a new one; after every cycle the style of every entry is the
\* current style.
StyleChangeRebuilds ==
  [][cycle'.ran > 0 =>
       /\ \A k \in DOMAIN markerRegistry' :
             /\ markerRegistry'[k].style = CurrentStyle'
             /\ markerRegistry'[k].marker[2] = CurrentStyle'
       /\ \A k \in DOMAIN markerRegistry \cap DOMAIN markerRegistry' :
             markerRegistry[k].style # CurrentStyle' =>
               /\ markerRegistry[k].marker \notin markersLayer'
               /\ markerRegistry'[k].marker # markerRegistry[k].marker]_vars

\* the style toggle rebuilt a recent and a cumulative marker
StyleChangeRebuildsWitness ==
  /\ cycle.op = "style"
  /\ cycle.ran = 1
  /\ \E k \in DOMAIN markerRegistry :
        /\ markerRegistry[k].variant = "recent"
        /\ markerRegistry[k].marker \in markersLayer
  /\ \E k \in DOMAIN markerRegistry : markerRegistry[k].variant = "cumulative"
  /\ \A k \in DOMAIN markerRegistry : markerRegistry[k].style = CurrentStyle

\* C17: no flicker: a key visible in two consecutive cycles under the same
\* marker style keeps its marker; the second cycle neither removes it from
\* the layer nor creates a marker for it, whether or not its variant changed.
NoFlicker ==
  [][cycle'.ran > 0 =>
       /\ ~cycle'.flicker
       /\ \A k \in DOMAIN markerRegistry \cap DOMAIN markerRegistry' :
             markerRegistry[k].style = CurrentStyle' =>
               /\ markerRegistry'[k].marker = markerRegistry[k].marker
               /\ markerRegistry[k].marker \in markersLayer =>
                    markerRegistry'[k].marker \in markersLayer']_vars

\* a tick kept a marker and flipped its variant
NoFlickerWitness ==
  /\ cycle.op = "tick"
  /\ cycle.ran = 1
  /\ cycle.flipped
  /\ ~cycle.flicker
  /\ \A k \in DOMAIN markerRegistry : markerRegistry[k].marker \in markersLayer

\* C18: no orphaned handles: after every reconcile cycle, on a layer group
\* and on a cluster group, the markers on the layer are the markers the
\* registry holds, and a key that is no longer visible has no marker on the
\* layer.
NoOrphanedHandles ==
  cycle.ran > 0 =>
    /\ markersLayer = RegistryMarkers(M)
    /\ \A marker \in markersLayer : marker[1] \in KeysOf(VisibleNow)

\* a cycle has ended with no chunk unfinished and with a marker on the layer
\* that the registry does not hold, of a key that is not visible
OrphanLeftOnClusterGroup ==
  /\ cycle.ran > 0
  /\ pendingChunks = {}
  /\ \E marker \in markersLayer \ RegistryMarkers(M) :
        marker[1] \notin KeysOf(VisibleNow)

CalledWithoutMap == probe.fn = "withoutMap" /\ probe.done

\* the program state that call was made in
BeforeCallWithoutMap ==
  WithoutMap(probe.when, probe.dataset, probe.regionId, probe.dayOffset)

\* C20: updateMapVisualization or setMapStyle called while the map context
\* is not initialized, before initMap or after destroyMap, throws the Error
\* of requireMapContext before doing anything else: the marker registry and
\* the recent-keys cache are as before the call.
NoMapThrowsAtOnce ==
  CalledWithoutMap =>
    /\ BeforeCallWithoutMap.mapContext = Null
    /\ probe.result.cycle.error = MapNotInitialized
    /\ probe.result.cycle.ran = 0
    /\ probe.result.markerRegistry = BeforeCallWithoutMap.markerRegistry
    /\ probe.result.markersLayer = BeforeCallWithoutMap.markersLayer
    /\ probe.result.cachedRecentKeys = BeforeCallWithoutMap.cachedRecentKeys
    /\ probe.result.cachedVisibleCount = BeforeCallWithoutMap.cachedVisibleCount
    /\ probe.result.mapContext = Null

\* updateMapVisualization was called after destroyMap had removed a map on
\* which records were shown
NoMapThrowsAtOnceWitness ==
  /\ CalledWithoutMap
  /\ probe.when = "destroyed"
  /\ probe.call = "updateMapVisualization"
  /\ probe.dayOffset = UnitsPerDay
  /\ probe.dataset = ScenarioMixed
  /\ probe.result.cycle.error = MapNotInitialized
  /\ probe.result.markerRegistry = <<>>

\* ------------------------------------------------------------------------
\* The normalizer
\* ------------------------------------------------------------------------
\* a raw record with both coordinates and a category of the visualization
ValidRecord(r) ==
  /\ r.lat # undefined
  /\ r.lng # undefined
  /\ r.type \in {"HOUSE", "POSTER"}

\* the raw fields of a processed record
RawFields(a) == Activity(a.date, a.type, a.lat, a.lng, a.count)

RawFieldsOf(processed) == [i \in 1..Len(processed) |-> RawFields(processed[i])]

Processed == probe.fn = "processActivities" /\ probe.done

\* C21: the normalizer produces no ProcessedActivity for a raw record whose
\* coordinates are missing or whose category is neither HOUSE nor POSTER:
\* every output record is a valid one, and there are as many outputs as
\* valid inputs.
InvalidRecordsRejected ==
  Processed =>
    /\ \A i \in 1..Len(probe.result) : ValidRecord(RawFields(probe.result[i]))
    /\ Len(probe.result) = Len(SelectSeq(probe.activities, ValidRecord))

\* an input with a record of either kind of defect, all of it in the output
InvalidRecordProcessed ==
  /\ Processed
  /\ \E i \in 1..Len(probe.activities) : probe.activities[i].lat = undefined
  /\ \E i \in 1..Len(probe.activities) : probe.activities[i].type = "FLYER"
  /\ Len(probe.result) = Len(probe.activities)
  /\ \E i \in 1..Len(probe.result) : probe.result[i].lat = undefined
  /\ \E i \in 1..Len(probe.result) : probe.result[i].type = "FLYER"

\* C22: the valid input records have exactly one output record each, in the
\* same relative order, with date, type, lat, lng and count unchanged: the
\* raw fields of the outputs of valid records are the list of the valid
\* inputs.
OneOutputPerValidRecord ==
  Processed =>
    SelectSeq(RawFieldsOf(probe.result), ValidRecord) =
      SelectSeq(probe.activities, ValidRecord)

\* three different valid records normalized, not in date order
OneOutputPerValidRecordWitness ==
  /\ Processed
  /\ Len(probe.activities) = 3
  /\ \A i \in 1..3 : ValidRecord(probe.activities[i])
  /\ probe.activities[1].date > probe.activities[2].date
  /\ probe.activities[3].date > probe.activities[1].date
  /\ RawFieldsOf(probe.result) = probe.activities

\* C23: dayIndex is max(0, round((date - start) / one day)); when the start
\* is the earliest date of the input, every dayIndex is in 0..totalDays and
\* the records of the last date have dayIndex = totalDays.
DayIndexWithinRange ==
  Processed =>
    /\ \A i \in 1..Len(probe.result) :
          probe.result[i].dayIndex =
             Max(0, Round(getTime(probe.activities[i].date) - getTime(probe.startDate),
                          MS_PER_DAY))
    /\ probe.startDate = MinDate(probe.activities) =>
          \A i \in 1..Len(probe.result) :
             /\ probe.result[i].dayIndex \in 0..probe.totalDays
             /\ probe.result[i].date = MaxDate(probe.activities) =>
                   probe.result[i].dayIndex = probe.totalDays

\* the start is the earliest date and a record of the last date has a
\* dayIndex beyond totalDays
LastDayBeyondTotalDays ==
  /\ Processed
  /\ probe.startDate = MinDate(probe.activities)
  /\ \E i \in 1..Len(probe.result) :
        /\ probe.result[i].date = MaxDate(probe.activities)
        /\ probe.result[i].dayIndex = probe.totalDays + 1

\* C24: seededRandom returns r with 0 <= r < 1 for every seed, and the same
\* value for the same seed.
SeededRandomInUnitInterval ==
  (probe.fn = "seededRandom" /\ probe.done) =>
    /\ 0 <= probe.result
    /\ probe.result < One
    /\ probe.again = probe.result

\* a seed for which seededRandom returns 1.0
SeededRandomReturnsOne ==
  /\ probe.fn = "seededRandom" /\ probe.done
  /\ probe.seed < 0
  /\ probe.result = One

\* ------------------------------------------------------------------------
\* The batch aggregation
\* ------------------------------------------------------------------------
RECURSIVE SumOfCounts(_)
SumOfCounts(acts) ==
  IF Len(acts) = 0 THEN 0 ELSE Head(acts).count + SumOfCounts(Tail(acts))

\* the ~100 m cell of a record: its coordinates rounded to 0.001 degree
CellOf(a) == <<Round(a.lat, 1000), Round(a.lng, 1000)>>

SameGroup(a, b) == a.date = b.date /\ a.type = b.type /\ CellOf(a) = CellOf(b)

Aggregated == probe.fn = "aggregateByDateAndLocation" /\ probe.done

\* C28: the aggregation merges the records of one type that share a date
\* and a grid cell into one record whose count is the sum of theirs: the
\* output has exactly one record for every (date, type, cell) of the input
\* and none else, and the total count is that of the input.
AggregationMergesAndPreserves ==
  Aggregated =>
    /\ \A i, j \in 1..Len(probe.result) :
          SameGroup(probe.result[i], probe.result[j]) => i = j
    /\ \A i \in 1..Len(probe.activities) :
          \E j \in 1..Len(probe.result) : SameGroup(probe.result[j], probe.activities[i])
    /\ \A j \in 1..Len(probe.result) :
          probe.result[j].count =
             SumOfCounts(SelectSeq(probe.activities,
                                   LAMBDA a : SameGroup(a, probe.result[j])))
    /\ SumOfCounts(probe.result) = SumOfCounts(probe.activities)

\* two records of one cell merged, next to a record of the other type in
\* that cell
AggregationMergesAndPreservesWitness ==
  /\ Aggregated
  /\ Len(probe.activities) = 3
  /\ Len(probe.result) = 2
  /\ \E i, j \in 1..3 :
        /\ i # j
        /\ probe.activities[i].lat # probe.activities[j].lat
        /\ SameGroup(probe.activities[i], probe.activities[j])
  /\ \E i \in 1..3 : probe.activities[i].type = "POSTER"

\* ------------------------------------------------------------------------
\* Registry entries and records
\* ------------------------------------------------------------------------
\* the visible records that the entry of a key stands for
RecordsOfEntry(key) ==
  {i \in 1..Len(VisibleNow) : createActivityKey(VisibleNow[i]) = key}

\* C25 as stated: after every reconcile cycle no two distinct visible
\* records are mapped to the same registry entry, so there are as many
\* entries as visible records.
EntryPerVisibleRecord ==
  cycle.ran > 0 =>
    /\ \A key \in DOMAIN markerRegistry : Cardinality(RecordsOfEntry(key)) = 1
    /\ Cardinality(DOMAIN markerRegistry) = Len(VisibleNow)

\* C25: after every reconcile cycle each registry entry is the entry of
\* exactly one identity key, which at least one visible record has, and
\* holds the marker created for that key; every visible record has the
\* entry of its key, so two distinct visible records are mapped to the same
\* entry exactly when their identity keys are equal.
EntryPerIdentityKey ==
  cycle.ran > 0 =>
    /\ \A key \in DOMAIN markerRegistry :
          /\ RecordsOfEntry(key) # {}
          /\ \E style \in {"sunflower", "simple"} :
                markerRegistry[key].marker = createMarker(key, style)
    /\ \A i \in 1..Len(VisibleNow) :
          createActivityKey(VisibleNow[i]) \in DOMAIN markerRegistry
    /\ \A k1, k2 \in DOMAIN markerRegistry :
          markerRegistry[k1].marker = markerRegistry[k2].marker => k1 = k2

\* a cycle has left one entry for two visible records that differ in their
\* coordinates, next to the entry of another record
EntryPerIdentityKeyWitness ==
  /\ cycle.ran > 0
  /\ \E key \in DOMAIN markerRegistry :
        \E i, j \in RecordsOfEntry(key) : VisibleNow[i].lat # VisibleNow[j].lat
  /\ Cardinality(DOMAIN markerRegistry) >= 2

\* ------------------------------------------------------------------------
\* The whole page
\* ------------------------------------------------------------------------
\* C26: in every reachable state 0 <= dayOffset <= totalDays, totalDays
\* being the length of the date range of the region's dataset: after ticks,
\* scrubs, clamps at the end, loop restarts, fullscreen entries and region
\* changes.
DayOffsetWithinRange ==
  /\ 0 <= state.dayOffset
  /\ state.dayOffset <= TotalUnits

\* after a region change, ad-mode playback has run to the end of the range
\* and waits for its restart
DayOffsetWithinRangeWitness ==
  /\ ui.keydownListeners = 2
  /\ state.isFullscreen
  /\ TotalUnits > 0
  /\ state.dayOffset = TotalUnits
  /\ ~state.isPlaying
  /\ restartTimers > 0

\* C27: playbackSpeed is strictly positive in every reachable state, in
\* fullscreen ad mode too, whatever the date range of the dataset.
PlaybackSpeedPositive == state.playbackSpeed > 0

\* fullscreen ad mode entered on a dataset whose records are all of one day
AdModeSpeedZero ==
  /\ state.isFullscreen
  /\ TotalUnits = 0
  /\ state.playbackSpeed = 0

\* C29: the recent-keys cache is sound in every reachable state: the recent
\* set a reconcile cycle used is the one a sort of the current visible list
\* gives, and a cache that the next call would reuse for the current visible
\* list holds that set.
CacheSound ==
  /\ cycle.ran > 0 => cycle.recentKeys = FreshRecentKeys
  /\ (/\ shouldHighlightRecentMarkers(M)
      /\ cachedRecentKeys # Null
      /\ Len(VisibleNow) > 0
      /\ cachedVisibleCount = Len(VisibleNow))
       => ValueOf(cachedRecentKeys) = FreshRecentKeys

\* after a region change and under a filter, fullscreen playback has
\* reconciled with a cached recent set
CacheSoundWitness ==
  /\ ui.keydownListeners = 2
  /\ state.isFullscreen /\ state.isPlaying
  /\ state.activityFilter = "POSTER"
  /\ state.dayOffset > 0
  /\ cycle.ran > 0
  /\ cycle.recentKeys # {}
  /\ cachedRecentKeys = Some(cycle.recentKeys)

\* C30: at most one animation-frame request is pending at any time, and
\* animationFrameId is null or the id of the pending one.
AtMostOneFramePending ==
  /\ Cardinality(pendingFrames) <= 1
  /\ state.animationFrameId = 0 \/ pendingFrames = {state.animationFrameId}

\* two requested frames are pending while playing
TwoFramesPending ==
  /\ Cardinality(pendingFrames) = 2
  /\ state.isPlaying
  /\ state.animationFrameId \in pendingFrames

\* ------------------------------------------------------------------------
\* Timers, keys and region changes
\* ------------------------------------------------------------------------
\* the last handler stopped playback by exitFullscreen or by a region change
StoppedByExitOrRegionChange ==
  \/ cycle.op = "region"
  \/ cycle.op \in {"fullscreen", "KeyF"} /\ ~state.isFullscreen

\* C31: once playback has been stopped by exitFullscreen or by a region
\* change, a timeout armed earlier (the end-of-range restart or the
\* fullscreen start) or a frame requested earlier that fires next leaves
\* isPlaying false and dayOffset unchanged.
StoppedStaysStopped ==
  [][(StoppedByExitOrRegionChange /\ cycle'.op \in {"restart", "start", "tick"}) =>
       (~state'.isPlaying /\ state'.dayOffset = state.dayOffset)]_vars

\* the start timeout of enterFullscreen has fired after exitFullscreen and
\* has resumed playback outside fullscreen
StartTimerResumesAfterExit ==
  /\ cycle.op = "start"
  /\ ~state.isFullscreen
  /\ state.isPlaying
  /\ state.playbackSpeed = 1

\* selectVisibleActivities was called on a dataset (its first day is the
\* start date its dayIndex values count from) with the clock at the end of
\* the range and filter ALL
ProbeAtEndOfRange ==
  /\ probe.fn = "selectVisibleActivities" /\ probe.done
  /\ Len(probe.activities) > 0
  /\ LET range == computeDateRange(probe.activities)
     IN  /\ \E i \in 1..Len(probe.activities) : probe.activities[i].dayIndex = 0
         /\ probe.st.dayOffset = differenceInDays(range.end, range.start) * UnitsPerDay
         /\ probe.st.currentDate = range.end
  /\ probe.st.activityFilter = "ALL"

\* C32: with the clock at the end of the range (dayOffset = totalDays,
\* currentDate = range end) and filter ALL, every record of the dataset is in
\* the visible set, the records dated on the last day included.
FullRevealAtEnd == ProbeAtEndOfRange => probe.result = probe.activities

\* at the end of a range of one day a record dated on the last day is not
\* in the visible set
LastDayRecordHiddenAtEnd ==
  /\ ProbeAtEndOfRange
  /\ probe.st.dayOffset = UnitsPerDay
  /\ \E i \in 1..Len(probe.activities) :
        /\ probe.activities[i].date = probe.st.currentDate
        /\ probe.activities[i].revealFraction > 0
        /\ \A j \in 1..Len(probe.result) : probe.result[j] # probe.activities[i]

\* C33: time spent stopped does not advance the timeline.  The animate call
\* of startPlayback computes an advance of zero whatever time has passed
\* since the last tick before the stop, and lastFrameTime is then the time of
\* the start; a tick while playing computes dayOffset + playbackSpeed *
\* BASE_DAYS_PER_MS * (time since the previous tick or the start) and writes
\* it to dayOffset, clamped to totalDays; between ticks lastFrameTime stays
\* as it is while time passes or the slider or the speed select is used.
TimeStoppedDoesNotAdvance ==
  [][/\ cycle'.stopped # -1 =>
          /\ cycle'.advanced = (IF cycle'.op = "restart" THEN 0 ELSE state.dayOffset)
          /\ sinceLastFrameTime' = 0
     /\ (state.isPlaying /\ cycle'.op = "tick") =>
          /\ \E deltaMs \in 1..MaxFrameDelta :
                cycle'.advanced =
                  state.dayOffset + state.playbackSpeed * BASE_DAYS_PER_MS
                                      * (sinceLastFrameTime + deltaMs)
          /\ state'.dayOffset = Min(cycle'.advanced, TotalUnits)
          /\ sinceLastFrameTime' = 0
     /\ (state.isPlaying /\ cycle'.op = "time") =>
          /\ sinceLastFrameTime' = sinceLastFrameTime + 1
          /\ state' = state
     /\ (state.isPlaying /\ cycle'.op \in {"scrub", "speed"}) =>
          sinceLastFrameTime' = sinceLastFrameTime]_vars

\* playback was stopped in the middle of the range, time passed, and
\* startPlayback has advanced dayOffset by nothing
TimeStoppedDoesNotAdvanceWitness ==
  /\ cycle.op = "toggle"
  /\ cycle.stopped = MaxFrameDelta + 1
  /\ state.isPlaying
  /\ state.playbackSpeed = 2
  /\ state.dayOffset > 0
  /\ cycle.advanced = state.dayOffset
  /\ sinceLastFrameTime = 0

\* the visible list at dayOffset d, under the current filter, currentDate
\* being the start date plus d as the timeline writes it
VisibleAt(d) ==
  selectVisibleActivities(
    activities,
    [state EXCEPT !.dayOffset = d, !.currentDate = addDays(dateRange.start, d)])

\* the dayOffsets of the update interval the clock is in
CurrentIntervalOffsets ==
  {d \in 0..(state.dayOffset + UPDATE_INTERVAL_DAYS) :
     currentIntervalOf(d) = currentIntervalOf(state.dayOffset)}

\* C34: after every tick or user event the key set of the marker registry
\* is the key set of the visible list at some dayOffset of the update
\* interval the clock is in, under the current filter: the markers never lag
\* the clock by a full update interval, also after a region change, which
\* leaves lastUpdateInterval as it is.
DisplayLagBounded ==
  \E d \in CurrentIntervalOffsets : DOMAIN markerRegistry = KeysOf(VisibleAt(d))

\* after a region change lastUpdateInterval is still the interval the clock
\* of the region before was in, and the markers of the new region are shown
DisplayLagBoundedWitness ==
  /\ ui.keydownListeners = 2
  /\ state.dayOffset = 0
  /\ lastUpdateInterval > 0
  /\ state.activityFilter = "HOUSE"
  /\ DOMAIN markerRegistry # {}

\* the records of the classified list that fewer than n records come after,
\* a record coming after another when it is revealed later or, on equal
\* reveal timestamps, stands later in the list
LatestInInputOrder ==
  {i \in 1..Len(probe.visible) :
     Cardinality({j \in 1..Len(probe.visible) :
                    \/ ProbeTimestamp(j) > ProbeTimestamp(i)
                    \/ ProbeTimestamp(j) = ProbeTimestamp(i) /\ j > i}) < probe.n}

\* C35: the recent set is the key set of the last n records of the visible
\* list sorted by reveal timestamp with ties left in input order: of records
\* with equal reveal timestamps that the window boundary falls between, the
\* ones later in the input are taken.
TiesTakenLaterInInput ==
  RecentCalled => probe.result = {ProbeKey(i) : i \in LatestInInputOrder}

\* two records with equal reveal timestamps and different keys classified
\* with a window of one: the second is recent, the first is not
TiesTakenLaterInInputWitness ==
  /\ RecentCalled
  /\ probe.n = 1
  /\ Len(probe.visible) = 2
  /\ ProbeTimestamp(1) = ProbeTimestamp(2)
  /\ ProbeKey(1) # ProbeKey(2)
  /\ probe.result = {ProbeKey(2)}

\* C36: in every reachable state currentDate is startDate plus the whole
\* days of dayOffset: every operation that writes dayOffset (tick, clamp at
\* the end of the range, scrub, resetToStart, initializeStartDate) writes the
\* matching currentDate in the same step.
CurrentDateMatchesDayOffset ==
  state.currentDate = state.startDate + FloorDays(state.dayOffset)

\* daylight saving time ends inside the date range, and the end tick has
\* written the end of the range, a day after the start date plus dayOffset
CurrentDateAheadOfDayOffset ==
  /\ cycle.op = "tick"
  /\ ui.zone = Zone(2, 1, 5)
  /\ state.dayOffset = TotalUnits
  /\ state.currentDate = dateRange.end
  /\ state.currentDate = state.startDate + FloorDays(state.dayOffset) + 1

\* C37: one press of the Space key runs togglePlayback exactly once, after
\* any number of region changes: the state after the key press is the state
\* one togglePlayback leaves.
SpaceTogglesOnce ==
  [][cycle'.op = "Space" =>
       \E slow \in SlowChoices : Becomes(togglePlayback(Handler("Space", slow)))]_vars

\* after a region change Space was pressed while stopped inside the range:
\* the key press started playback and stopped it again
SpaceStartedAndStopped ==
  /\ cycle.op = "Space"
  /\ ui.keydownListeners = 2
  /\ cycle.stopped # -1
  /\ TotalUnits > 0
  /\ state.dayOffset < TotalUnits
  /\ ~state.isPlaying

\* C38: after handleRegionChange isPlaying is false, dayOffset is 0, the
\* records are those of the new region, the recent cache is empty or holds
\* the recent set of the new region's visible list, and the marker registry
\* holds exactly the keys of the new region's visible list at dayOffset 0,
\* each with a marker created by this region change; the layer holds no
\* other marker.
RegionSwitchStartsAfresh ==
  cycle.op = "region" =>
    /\ ~state.isPlaying
    /\ state.animationFrameId = 0
    /\ state.dayOffset = 0
    /\ state.currentDate = dateRange.start
    /\ activities = switchRegion(M, state.currentRegion).activities
    /\ dateRange = switchRegion(M, state.currentRegion).dateRange
    /\ CacheMatchesVisible
    /\ DOMAIN markerRegistry = KeysOf(VisibleAt(0))
    /\ ~cycle.reused
    /\ markersLayer \subseteq RegistryMarkers(M)
    /\ ValueOf(mapContext).clusteringEnabled
         = getRegionConfig(state.currentRegion).clusteringEnabled

\* the region was changed from the two-day region to the one-day region
\* while in fullscreen ad mode, and the markers of the new region are shown
RegionSwitchStartsAfreshWitness ==
  /\ cycle.op = "region"
  /\ state.currentRegion = "bawu"
  /\ state.isFullscreen
  /\ state.playbackSpeed > 1
  /\ TotalUnits = 0
  /\ DOMAIN markerRegistry # {}
  /\ ~cycle.reused

====
